---- MODULE Spec2Model ----
(***************************************************************************)
(* A model of the blazecsv parsing engine (blazecsv.hpp): the record       *)
(* iterator Reader<Columns, Delim, ErrorPolicy, NullPol> and the parallel  *)
(* iterator ParallelReader<Columns, Delim, NullPol>.                       *)
(*                                                                         *)
(* The mapped file is a sequence of bytes.  Pointers into the mapping are  *)
(* 0-based offsets, as in the source: the byte *p is file[p + 1].          *)
(***************************************************************************)
EXTENDS Integers, Sequences, FiniteSets, Bags, TLC

\* ------------------------------------------------------------------ bounds
\* most bytes explored after the header line, by a Reader
MaxLen == 5
\* most bytes explored after the header line, by a ParallelReader
MaxParLen == 4
\* largest template parameter Columns explored
MaxCols == 2
\* most iteration calls made on one Reader
MaxCalls == 2
\* largest num_threads explored
MaxThreads == 3

\* ------------------------------------------------------------- the bytes
LF == "\n"
CR == "\r"
\* template parameter Delim (its default)
Delim == ","
\* the bytes a file is made of: one data byte and the three special ones
Chars == {"a", Delim, LF, CR}

\* The files explored.  A reader that takes the first line as a header is
\* given the header line HeaderLine followed by any bytes; a reader built
\* with skip_header = false is given any bytes.
HeaderLine == <<"a", LF>>
Bodies(max) == UNION {[1..n -> Chars] : n \in 0..max}
Files(skip, max) ==
    {IF skip THEN HeaderLine \o b ELSE b : b \in Bodies(max)}

\* width of one SIMD lane load
VecWidth == 16

\* -------------------------------------------------------- error policies
NoErrorCheck ==
    [enabled |-> FALSE, track_line |-> FALSE, track_column |-> FALSE]
ErrorCheckBasic ==
    [enabled |-> TRUE, track_line |-> TRUE, track_column |-> FALSE]
ErrorCheckFull ==
    [enabled |-> TRUE, track_line |-> TRUE, track_column |-> TRUE]
ErrorPolicies == {NoErrorCheck, ErrorCheckBasic, ErrorCheckFull}

\* struct ErrorInfo, default-constructed
ErrorInfo == [code |-> "Ok", line |-> 0, column |-> 0]

\* the value of an array slot that was never written
Uninit == -2
\* a pointer that lies outside the mapping
Wild == -1

VARIABLES
    \* the mapped bytes (MmapSource::data_, size_) and the template arguments
    file, Columns, ErrorPolicy, skip_header,
    \* Reader members
    current_, end_, column_names_, header_parsed_, last_error_, line_number_,
    \* the iteration call in progress (or the last one made): which surface,
    \* whether it is still running, its locals count, starts, ends
    op, running, count, starts, ends,
    \* what the call did, in order: its callback invocations and skipped rows
    log,
    \* the value the last completed call returned, and the calls made so far
    ret, ncalls,
    \* ParallelReader members
    data_, size_, num_threads_,
    \* for_each_parallel: position of the calling thread, its locals
    pc, chunks, counts, threads, total,
    \* each worker's parse_chunk locals
    wcurrent, wcount,
    \* the threads the calling thread has joined so far
    joined,
    \* every callback invocation made by the workers, as a bag of records
    pdelivered,
    \* a call of one of the library's free-standing functions (a scanner, a
    \* null policy, a FieldRef parser, the MmapSource constructor): the
    \* function called ("none" before the call), its arguments, its result
    fn, args, result

readerVars ==
    <<current_, end_, header_parsed_, last_error_, line_number_,
      op, running, count, starts, ends, log, ncalls, ErrorPolicy>>
parVars ==
    <<data_, size_, num_threads_, pc, chunks, counts, threads, total,
      wcurrent, wcount, joined, pdelivered>>
callVars == <<fn, args, result>>
vars ==
    <<file, Columns, skip_header, column_names_, ret, readerVars, parVars,
      callVars>>

\* ---------------------------------------------------------------- bytes
At(p) == file[p + 1]
\* the bytes of [b, e)
Bytes(b, e) == SubSeq(file, b + 1, e)
Min(S) == CHOOSE x \in S : \A y \in S : x <= y

\* ------------------------------------------------------------- scanners
RECURSIVE NewlineScalar(_, _, _)
NewlineScalar(data, len, i) ==
    IF i < len
    THEN IF At(data + i) = LF THEN i ELSE NewlineScalar(data, len, i + 1)
    ELSE len

RECURSIVE NewlineVector(_, _, _)
NewlineVector(data, len, i) ==
    IF i + VecWidth <= len
    THEN LET mask == {j \in 0..(VecWidth - 1) : At(data + i + j) = LF}
         IN  IF mask # {} THEN i + Min(mask)
             ELSE NewlineVector(data, len, i + VecWidth)
    ELSE NewlineScalar(data, len, i)

find_newline(data, len) ==
    IF len >= VecWidth THEN NewlineVector(data, len, 0)
    ELSE NewlineScalar(data, len, 0)

\* (mutant) a CR does not end a field
IsFieldEndNoCR(c, delim) == c = delim \/ c = LF

\* the terminator test of find_field_end
IsFieldEnd(c, delim) == c = delim \/ c = LF \/ c = CR

RECURSIVE FieldEndScalar(_, _, _, _)
FieldEndScalar(data, len, delim, i) ==
    IF i < len
    THEN IF IsFieldEnd(At(data + i), delim) THEN i
         ELSE FieldEndScalar(data, len, delim, i + 1)
    ELSE len

RECURSIVE FieldEndVector(_, _, _, _)
FieldEndVector(data, len, delim, i) ==
    IF i + VecWidth <= len
    THEN LET mask == {j \in 0..(VecWidth - 1) :
                         IsFieldEnd(At(data + i + j), delim)}
         IN  IF mask # {} THEN i + Min(mask)
             ELSE FieldEndVector(data, len, delim, i + VecWidth)
    ELSE FieldEndScalar(data, len, delim, i)

find_field_end(data, len, delim) ==
    IF len >= VecWidth THEN FieldEndVector(data, len, delim, 0)
    ELSE FieldEndScalar(data, len, delim, 0)

\* ------------------------------------------------- one line of the file
\* (mutant) the last byte of the line is dropped, CR or not
StripCRAlways(cur, line_end) ==
    IF line_end > cur THEN line_end - 1 ELSE line_end

\* "Strip CR if present"
StripCR(cur, line_end) ==
    IF line_end > cur /\ At(line_end - 1) = CR THEN line_end - 1 ELSE line_end

\* "Skip delimiter"
SkipDelimiter(ptr, effective_end) ==
    IF ptr < effective_end /\ At(ptr) = Delim THEN ptr + 1 ELSE ptr

\* (mutant) the field loop runs to the end of the row, counting every field
FieldLoopGuardCountsAll(col, ptr, effective_end) == ptr < effective_end

\* the guard of the field loop: while (col < Columns && ptr < effective_end)
FieldLoopGuard(col, ptr, effective_end) ==
    col < Columns /\ ptr < effective_end

\* the field loop
RECURSIVE FieldLoop(_, _, _, _, _)
FieldLoop(ptr, col, effective_end, st, en) ==
    IF FieldLoopGuard(col, ptr, effective_end)
    THEN LET p2 == ptr + find_field_end(ptr, effective_end - ptr, Delim)
         IN  FieldLoop(SkipDelimiter(p2, effective_end), col + 1,
                       effective_end,
                       [st EXCEPT ![col] = ptr], [en EXCEPT ![col] = p2])
    ELSE [ptr |-> ptr, col |-> col, starts |-> st, ends |-> en]

\* (mutant) a terminal delimiter is not followed by an empty field
trailing_empty_never(col, en, effective_end) == FALSE

\* "Handle trailing empty field"
trailing_empty(col, en, effective_end) ==
    /\ col > 0
    /\ col < Columns
    /\ en[col - 1] < effective_end
    /\ At(en[col - 1]) = Delim

\* (mutation of NextLine) the cursor is left on the newline
NextLineAtNewline(line_end, end) == line_end

\* "Advance to next line"
NextLine(line_end, end) == IF line_end < end THEN line_end + 1 ELSE end

\* The body of the row loop from "Find line end" to "Advance to next line",
\* for the row at cur in the range that ends at end; st and en are the
\* arrays starts and ends as the previous rows left them.
SplitRow(cur, end, st, en) ==
    LET line_end == cur + find_newline(cur, end - cur)
        effective_end == StripCR(cur, line_end)
        f == FieldLoop(cur, 0, effective_end, st, en)
        te == trailing_empty(f.col, f.ends, effective_end)
    IN  [cur |-> cur,
         line_end |-> line_end,
         effective_end |-> effective_end,
         col |-> IF te THEN f.col + 1 ELSE f.col,
         starts |-> IF te THEN [f.starts EXCEPT ![f.col] = f.ptr]
                    ELSE f.starts,
         ends |-> IF te THEN [f.ends EXCEPT ![f.col] = f.ptr] ELSE f.ends,
         next |-> NextLine(line_end, end)]

\* (mutation of SkipEmptyLine) the cursor stays on the blank line
SkipEmptyLineStuck(cur, end) == cur

\* "Skip empty lines": the cursor after the blank line at cur
SkipEmptyLine(cur, end) ==
    IF At(cur) = LF THEN cur + 1
    ELSE IF cur + 1 < end /\ At(cur + 1) = LF THEN cur + 2 ELSE cur + 1

\* (mutation of IsEmptyLine) only an LF makes a line empty
IsEmptyLineLFOnly(cur) == At(cur) = LF
IsEmptyLine(cur) == At(cur) = LF \/ At(cur) = CR

\* "Validate column count"
ColumnCountMismatch(col) == col # Columns

\* the arrays starts and ends of a call that has written nothing yet
FreshSlots == [i \in 0..(Columns - 1) |-> Uninit]

\* What a read of a slot yields: its value or, when the slot was never
\* written, an indeterminate value: any pointer, inside the mapping or not.
PointerValues == {Wild} \cup 0..Len(file)
SlotReads(v) == IF v = Uninit THEN PointerValues ELSE {v}

\* ------------------------------------------------------- Reader: header
\* the header loop of parse_header
RECURSIVE HeaderLoop(_, _, _, _)
HeaderLoop(ptr, col, effective_end, names) ==
    IF col < Columns /\ ptr < effective_end
    THEN LET p2 == ptr + find_field_end(ptr, effective_end - ptr, Delim)
         IN  HeaderLoop(SkipDelimiter(p2, effective_end), col + 1,
                        effective_end, [names EXCEPT ![col] = Bytes(ptr, p2)])
    ELSE names

NoNames == [i \in 0..(Columns - 1) |-> <<>>]

\* parse_header, from cursor cur: the names and the cursor it leaves
parse_header(cur, end) ==
    IF cur >= end
    THEN [names |-> NoNames, next |-> cur, parsed |-> FALSE, lines |-> 0]
    ELSE LET line_end == cur + find_newline(cur, end - cur)
             effective_end == StripCR(cur, line_end)
         IN  [names |-> HeaderLoop(cur, 0, effective_end, NoNames),
              next |-> NextLine(line_end, end),
              parsed |-> TRUE,
              lines |-> 1]

\* MmapSource::valid(): a file of size 0 is never mapped
SourceValid == Len(file) > 0

\* no free-standing function has been called
CallIdle == fn = "none" /\ args = <<>> /\ result = <<>>

ParIdle ==
    /\ data_ = 0 /\ size_ = 0 /\ num_threads_ = 1
    /\ pc = "none" /\ chunks = <<>> /\ counts = <<>> /\ threads = <<>>
    /\ total = 0 /\ wcurrent = <<>> /\ wcount = <<>>
    /\ joined = 0 /\ pdelivered = EmptyBag

\* Reader::Reader
Init ==
    /\ skip_header \in BOOLEAN
    /\ file \in Files(skip_header, MaxLen)
    /\ Columns \in 1..MaxCols
    /\ ErrorPolicy \in ErrorPolicies
    /\ end_ = Len(file)
    /\ LET h == IF skip_header /\ SourceValid THEN parse_header(0, Len(file))
                ELSE [names |-> NoNames, next |-> 0, parsed |-> FALSE,
                      lines |-> 0]
       IN  /\ current_ = h.next
           /\ column_names_ = h.names
           /\ header_parsed_ = h.parsed
           /\ line_number_ = IF ErrorPolicy.track_line THEN h.lines ELSE 0
    /\ last_error_ = ErrorInfo
    /\ op = "none" /\ running = FALSE /\ count = 0
    /\ starts = FreshSlots /\ ends = FreshSlots
    /\ log = <<>> /\ ret = 0 /\ ncalls = 0
    /\ ParIdle
    /\ CallIdle

\* ---------------------------------------------------- Reader: iteration
\* entry of for_each_raw, for_each or for_each_until
Call(surface) ==
    /\ ~running
    /\ ncalls < MaxCalls
    /\ op' = surface
    /\ running' = TRUE
    /\ count' = 0
    /\ starts' = FreshSlots
    /\ ends' = FreshSlots
    /\ log' = <<>>
    /\ ncalls' = ncalls + 1
    /\ UNCHANGED <<file, Columns, ErrorPolicy, skip_header, current_, end_,
                   column_names_, header_parsed_, last_error_, line_number_,
                   ret, parVars,
                   callVars>>

for_each_raw == Call("for_each_raw")
for_each == Call("for_each")
for_each_until == Call("for_each_until")

\* (mutation of NextLineNumber) blank lines are skipped before counting
NextLineNumberUnlessBlank ==
    IF ErrorPolicy.track_line /\ ~IsEmptyLine(current_)
    THEN line_number_ + 1 ELSE line_number_
\* ++line_number_ (a uint32_t; the files explored have far fewer lines)
NextLineNumber ==
    IF ErrorPolicy.track_line THEN line_number_ + 1 ELSE line_number_

\* the ErrorInfo for_each_raw stores for a row of col fields
MismatchError(col, line) ==
    [code |-> "ColumnCountMismatch",
     line |-> IF ErrorPolicy.track_line THEN line ELSE 0,
     column |-> col % 256]

\* An entry of log.  starts and ends are the arrays as the callback is
\* handed them (or as the skipped row left them): a slot no row of this
\* call has written is Uninit, and what the callback reads there is any of
\* SlotReads.  keep is the callback's answer (for_each_until).
Event(kind, r, s, e, line, keep) ==
    [ev |-> kind, cur |-> r.cur, line_end |-> r.line_end,
     effective_end |-> r.effective_end, col |-> r.col,
     starts |-> s, ends |-> e, line |-> line, keep |-> keep]

\* one pass of the while loop of for_each_raw (for_each runs the same loop
\* with a callback that wraps the pointers in FieldRefs)
ForEachRawRow ==
    /\ running
    /\ op \in {"for_each_raw", "for_each"}
    /\ current_ < end_
    /\ line_number_' = NextLineNumber
    /\ IF IsEmptyLine(current_)
       THEN /\ current_' = SkipEmptyLine(current_, end_)
            /\ UNCHANGED <<last_error_, count, starts, ends, log>>
       ELSE \E r \in {SplitRow(current_, end_, starts, ends)} :
                /\ current_' = r.next
                /\ starts' = r.starts
                /\ ends' = r.ends
                /\ IF ErrorPolicy.enabled /\ ColumnCountMismatch(r.col)
                   THEN /\ last_error_' = MismatchError(r.col, line_number_')
                        /\ log' = Append(log, Event("skip", r, r.starts,
                                                    r.ends, line_number_',
                                                    TRUE))
                        /\ UNCHANGED count
                   ELSE /\ log' = Append(log, Event("callback", r, r.starts,
                                                    r.ends, line_number_',
                                                    TRUE))
                        /\ count' = count + 1
                        /\ UNCHANGED last_error_
    /\ UNCHANGED <<file, Columns, ErrorPolicy, skip_header, end_,
                   column_names_, header_parsed_, op, running, ret, ncalls,
                   parVars,
                   callVars>>

\* (mutant) the callback's answer is ignored
EarlyTerminationIgnored(keep) == FALSE

\* "if (!callback(fields)) break;"
EarlyTermination(keep) == ~keep

\* one pass of the while loop of for_each_until; the callback answers keep
ForEachUntilRow ==
    /\ running
    /\ op = "for_each_until"
    /\ current_ < end_
    /\ line_number_' = NextLineNumber
    /\ IF IsEmptyLine(current_)
       THEN /\ current_' = SkipEmptyLine(current_, end_)
            /\ UNCHANGED <<count, starts, ends, log, running, ret>>
       ELSE \E r \in {SplitRow(current_, end_, starts, ends)} :
                /\ current_' = r.next
                /\ IF ErrorPolicy.enabled /\ ColumnCountMismatch(r.col)
                   THEN /\ log' = Append(log, Event("skip", r, r.starts,
                                                    r.ends, line_number_',
                                                    TRUE))
                        /\ starts' = r.starts
                        /\ ends' = r.ends
                        /\ UNCHANGED <<count, running, ret>>
                   ELSE \E keep \in BOOLEAN :
                           /\ log' = Append(log, Event("callback", r,
                                                       r.starts, r.ends,
                                                       line_number_', keep))
                           /\ count' = count + 1
                           /\ IF EarlyTermination(keep)
                              THEN /\ running' = FALSE
                                   /\ ret' = count'
                                   /\ starts' = FreshSlots
                                   /\ ends' = FreshSlots
                              ELSE /\ starts' = r.starts
                                   /\ ends' = r.ends
                                   /\ UNCHANGED <<running, ret>>
    /\ UNCHANGED <<file, Columns, ErrorPolicy, skip_header, end_,
                   column_names_, header_parsed_, last_error_, op, ncalls,
                   parVars,
                   callVars>>

\* the while loop ends (current_ >= end_): "return count;"
Return ==
    /\ running
    /\ current_ >= end_
    /\ running' = FALSE
    /\ ret' = count
    /\ starts' = FreshSlots
    /\ ends' = FreshSlots
    /\ UNCHANGED <<file, Columns, ErrorPolicy, skip_header, current_, end_,
                   column_names_, header_parsed_, last_error_, line_number_,
                   op, count, log, ncalls, parVars,
                   callVars>>

Next ==
    \/ for_each_raw
    \/ for_each
    \/ for_each_until
    \/ ForEachRawRow
    \/ ForEachUntilRow
    \/ Return

Spec == Init /\ [][Next]_vars

\* Reader::last_error() and Reader::has_error()
LastError == IF ErrorPolicy.enabled THEN last_error_ ELSE ErrorInfo
HasError == IF ErrorPolicy.enabled THEN last_error_.code # "Ok" ELSE FALSE

\* ------------------------------------------------------- ParallelReader
\* the header loop of the ParallelReader constructor
RECURSIVE ParHeaderLoop(_, _, _, _)
ParHeaderLoop(ptr, col, line_end, names) ==
    IF col < Columns /\ ptr < line_end
    THEN LET p2 == ptr + find_field_end(ptr, line_end - ptr, Delim)
         IN  ParHeaderLoop(SkipDelimiter(p2, line_end), col + 1, line_end,
                           [names EXCEPT ![col] = Bytes(ptr, p2)])
    ELSE names

\* (mutation of ParallelReaderCtor) the data starts at the header's LF
ParallelReaderCtorAtNewline ==
    IF skip_header /\ SourceValid
    THEN LET line_end == find_newline(0, Len(file))
         IN  [names |-> ParHeaderLoop(0, 0, line_end, NoNames),
              data |-> line_end,
              size |-> Len(file) - line_end]
    ELSE [names |-> NoNames, data |-> 0, size |-> Len(file)]

\* ParallelReader::ParallelReader: the names, data_ and size_ it leaves
ParallelReaderCtor ==
    IF skip_header /\ SourceValid
    THEN LET line_end == find_newline(0, Len(file))
             d == NextLine(line_end, Len(file))
         IN  [names |-> ParHeaderLoop(0, 0, line_end, NoNames),
              data |-> d,
              size |-> Len(file) - d]
    ELSE [names |-> NoNames, data |-> 0, size |-> Len(file)]

ReaderIdle ==
    /\ ErrorPolicy = ErrorCheckBasic
    /\ current_ = 0 /\ end_ = 0 /\ header_parsed_ = FALSE
    /\ last_error_ = ErrorInfo /\ line_number_ = 0
    /\ op = "none" /\ running = FALSE /\ count = 0
    /\ starts = FreshSlots /\ ends = FreshSlots
    /\ log = <<>> /\ ncalls = 0

InitPar ==
    /\ skip_header \in BOOLEAN
    /\ file \in Files(skip_header, MaxParLen)
    /\ Columns \in 1..MaxCols
    /\ num_threads_ \in 1..MaxThreads
    /\ LET c == ParallelReaderCtor
       IN  /\ column_names_ = c.names
           /\ data_ = c.data
           /\ size_ = c.size
    /\ pc = "idle" /\ chunks = <<>> /\ counts = <<>> /\ threads = <<>>
    /\ total = 0 /\ wcurrent = <<>> /\ wcount = <<>> /\ joined = 0
    /\ pdelivered = EmptyBag
    /\ ret = 0
    /\ ReaderIdle
    /\ CallIdle

\* (mutant) chunks are cut every chunk_size bytes, wherever that falls
ChunkEndUnaligned(chunk_start) ==
    LET approx_end == chunk_start + (size_ \div num_threads_)
    IN  IF approx_end >= data_ + size_ THEN data_ + size_ ELSE approx_end

\* (mutant) the chunk ends at the newline found, not after it
ChunkEndOnNewline(chunk_start) ==
    LET approx_end == chunk_start + (size_ \div num_threads_)
    IN  IF approx_end >= data_ + size_ THEN data_ + size_
        ELSE approx_end +
             find_newline(approx_end, (data_ + size_) - approx_end)

\* the end of the chunk that starts at chunk_start: the body of the loop
\* "Find chunk boundaries (must be at newlines)"
ChunkEnd(chunk_start) ==
    LET chunk_size == size_ \div num_threads_
        approx_end == chunk_start + chunk_size
    IN  IF approx_end >= data_ + size_ THEN data_ + size_
        ELSE LET nl == approx_end +
                       find_newline(approx_end, (data_ + size_) - approx_end)
             IN  IF nl < data_ + size_ THEN nl + 1 ELSE nl

RECURSIVE ChunkLoop(_, _, _)
ChunkLoop(i, chunk_start, acc) ==
    IF i < num_threads_ - 1 /\ chunk_start < data_ + size_
    THEN LET approx_end == ChunkEnd(chunk_start)
         IN  ChunkLoop(i + 1, approx_end,
                       Append(acc, <<chunk_start, approx_end>>))
    ELSE \* "Last chunk"
         IF chunk_start < data_ + size_
         THEN Append(acc, <<chunk_start, data_ + size_>>)
         ELSE acc

Chunks == ChunkLoop(0, data_, <<>>)

ParUnchanged ==
    UNCHANGED <<file, Columns, skip_header, column_names_, readerVars,
                data_, size_, num_threads_, callVars>>

\* entry of for_each_parallel, up to the vector counts
for_each_parallel ==
    /\ pc = "idle"
    /\ IF size_ = 0
       THEN /\ pc' = "returned"
            /\ ret' = 0
            /\ UNCHANGED <<chunks, counts>>
       ELSE /\ pc' = "spawn"
            /\ chunks' = Chunks
            /\ counts' = [i \in 1..Len(Chunks) |-> 0]
            /\ UNCHANGED ret
    /\ UNCHANGED <<threads, total, wcurrent, wcount, joined, pdelivered>>
    /\ UNCHANGED <<file, Columns, skip_header, column_names_, data_, size_,
                   num_threads_, current_, end_, header_parsed_, last_error_,
                   line_number_, op, running, count, starts, ends, log,
                   ncalls, ErrorPolicy, callVars>>

\* threads.emplace_back(...): worker i starts parse_chunk on chunks[i]
Spawn ==
    /\ pc = "spawn"
    /\ LET i == Len(threads) + 1
       IN  /\ threads' = Append(threads, "running")
           /\ wcurrent' = Append(wcurrent, chunks[i][1])
           /\ wcount' = Append(wcount, 0)
           /\ pc' = IF i = Len(chunks) THEN "join" ELSE "spawn"
    /\ UNCHANGED <<chunks, counts, total, joined, pdelivered, ret>>
    /\ ParUnchanged

\* one pass of the while loop of parse_chunk in worker w
ParseChunkRow(w) ==
    /\ threads[w] = "running"
    /\ wcurrent[w] < chunks[w][2]
    /\ IF IsEmptyLine(wcurrent[w])
       THEN /\ wcurrent' = [wcurrent EXCEPT
                               ![w] = SkipEmptyLine(@, chunks[w][2])]
            /\ UNCHANGED <<wcount, pdelivered>>
       ELSE LET r == SplitRow(wcurrent[w], chunks[w][2], FreshSlots,
                              FreshSlots)
            IN  /\ wcurrent' = [wcurrent EXCEPT ![w] = r.next]
                /\ IF r.col = Columns
                   THEN /\ pdelivered' = pdelivered (+)
                               SetToBag({[starts |-> r.starts,
                                          ends |-> r.ends]})
                        /\ wcount' = [wcount EXCEPT ![w] = @ + 1]
                   ELSE UNCHANGED <<wcount, pdelivered>>
    /\ UNCHANGED <<pc, chunks, counts, threads, total, joined, ret>>
    /\ ParUnchanged

\* parse_chunk returns in worker w: counts[i].store(...), the thread ends
ParseChunkReturn(w) ==
    /\ threads[w] = "running"
    /\ wcurrent[w] >= chunks[w][2]
    /\ counts' = [counts EXCEPT ![w] = wcount[w]]
    /\ threads' = [threads EXCEPT ![w] = "finished"]
    /\ UNCHANGED <<pc, chunks, total, wcurrent, wcount, joined, pdelivered,
                   ret>>
    /\ ParUnchanged

\* (mutant) the calling thread does not wait for the worker
JoinableAtOnce(i) == TRUE

\* whether threads[i].join() can return
Joinable(i) == threads[i] = "finished"

\* "Wait and sum": threads[i].join(); total += counts[i].load(); and,
\* after the last thread, return total
Join ==
    /\ pc = "join"
    /\ LET i == joined + 1
       IN  /\ Joinable(i)
           /\ total' = total + counts[i]
           /\ joined' = i
           /\ IF i = Len(threads)
              THEN pc' = "returned" /\ ret' = total'
              ELSE UNCHANGED <<pc, ret>>
    /\ UNCHANGED <<chunks, counts, threads, wcurrent, wcount, pdelivered>>
    /\ UNCHANGED <<file, Columns, skip_header, column_names_, data_, size_,
                   num_threads_, current_, end_, header_parsed_, last_error_,
                   line_number_, op, running, count, starts, ends, log,
                   ncalls, ErrorPolicy, callVars>>

NextPar ==
    \/ for_each_parallel
    \/ Spawn
    \/ \E w \in 1..Len(threads) : ParseChunkRow(w)
    \/ \E w \in 1..Len(threads) : ParseChunkReturn(w)
    \/ Join

SpecPar == InitPar /\ [][NextPar]_vars

\* ======================================================================
\* What the file holds, read off its bytes alone (no scanner, no cursor)
\* ======================================================================
Max(S) == CHOOSE x \in S : \A y \in S : x >= y

RECURSIVE SortedSeq(_)
SortedSeq(S) == IF S = {} THEN <<>> ELSE <<Min(S)>> \o SortedSeq(S \ {Min(S)})

RECURSIVE SumSeq(_)
SumSeq(q) == IF q = <<>> THEN 0 ELSE Head(q) + SumSeq(Tail(q))

\* the offsets of the LF bytes
LFs == {p \in 0..(Len(file) - 1) : At(p) = LF}
\* where the lines of the file start: at 0 and after every LF
LineStarts == {s \in {0} \cup {p + 1 : p \in LFs} : s < Len(file)}
\* the line that holds offset p
LineStartOf(p) == Max({s \in LineStarts : s <= p})
\* the LF that ends the line starting at s, or the end of the file
LineEndOf(s) == Min({p \in LFs : p >= s} \cup {Len(file)})
\* the same without the CR of a CRLF
LineBodyEnd(s) ==
    IF LineEndOf(s) > s /\ At(LineEndOf(s) - 1) = CR THEN LineEndOf(s) - 1
    ELSE LineEndOf(s)
\* 1-based number of the line starting at s
LineNumberOf(s) == 1 + Cardinality({p \in LFs : p < s})
\* the delimiters of the line starting at s, and its number of fields
DelimsOf(s) == {p \in s..(LineBodyEnd(s) - 1) : At(p) = Delim}
NumFields(s) == Cardinality(DelimsOf(s)) + 1
\* its fields as byte strings
RowFields(s) ==
    LET d == SortedSeq(DelimsOf(s))
        n == Len(d) + 1
    IN  [i \in 1..n |-> Bytes(IF i = 1 THEN s ELSE d[i - 1] + 1,
                              IF i = n THEN LineBodyEnd(s) ELSE d[i])]
\* the lines after the header line (all of them without skip_header)
DataLineStarts ==
    IF skip_header THEN {s \in LineStarts : s > 0} ELSE LineStarts
HasCR(s) == \E p \in s..(LineEndOf(s) - 1) : At(p) = CR

\* the callback invocations of the call, in order
Callbacks == SelectSeq(log, LAMBDA e : e.ev = "callback")
\* the field byte strings an invocation received
\* (a reference read from a slot that was never written names no bytes)
ValidRef(b, e) == 0 <= b /\ b <= e /\ e <= Len(file)
EventFields(ev) ==
    [i \in 1..Columns |->
        IF ValidRef(ev.starts[i - 1], ev.ends[i - 1])
        THEN Bytes(ev.starts[i - 1], ev.ends[i - 1])
        ELSE <<"?">>]
\* the first call made on a Reader, of one of the given surfaces
FirstCall(surfaces) == ncalls = 1 /\ op \in surfaces
\* the count the call has reached, or returned
CountSoFar == IF running THEN count ELSE ret

\* ======================================================================
\* C1
\* ======================================================================
\* a header line followed by data rows that are non-empty lines of exactly
\* Columns fields with no CR byte
WellFormedFile ==
    /\ skip_header
    /\ Len(file) > 0
    /\ \A s \in DataLineStarts :
          LineEndOf(s) > s /\ ~HasCR(s) /\ NumFields(s) = Columns

\* C1: over a well-formed file of R data rows, for_each invokes the
\* callback once per data row, the k-th invocation receiving the fields of
\* the k-th row, and returns R (under every error policy).
C1_ForEachDeliversEveryRow ==
    (FirstCall({"for_each"}) /\ WellFormedFile) =>
        LET rows == SortedSeq(DataLineStarts)
        IN  /\ Len(Callbacks) <= Len(rows)
            /\ Len(Callbacks) = Len(log)
            /\ \A k \in 1..Len(Callbacks) :
                  EventFields(Callbacks[k]) = RowFields(rows[k])
            /\ ~running => (ret = Len(rows) /\ Len(Callbacks) = Len(rows))

C1_Witness ==
    /\ FirstCall({"for_each"}) /\ WellFormedFile /\ ~running
    /\ Columns = 2
    /\ ret = 2
    /\ \E s \in DataLineStarts : At(LineBodyEnd(s) - 1) = Delim

\* ======================================================================
\* C2
\* ======================================================================
\* the line of the file an event is about
EventLine(ev) == LineStartOf(ev.cur)

\* C2: with an enabled error policy no surface invokes the callback for a
\* row of fewer than Columns fields, and the count excludes such rows.
C2_ShortRowsNeverDelivered ==
    ErrorPolicy.enabled =>
        /\ \A k \in 1..Len(log) :
              log[k].ev = "callback" => NumFields(EventLine(log[k])) >= Columns
        /\ CountSoFar = Len(Callbacks)

\* ======================================================================
\* C3
\* ======================================================================
\* C3 as claimed: with an enabled error policy a row of more than Columns
\* fields is skipped, neither delivered nor counted.
C3_LongRowsSkipped ==
    ErrorPolicy.enabled =>
        \A k \in 1..Len(log) :
            NumFields(EventLine(log[k])) > Columns => log[k].ev = "skip"

\* C3 as amended: with an enabled error policy a row of more than Columns
\* fields is not skipped: every such row the call has passed got one
\* callback invocation, with all Columns slots filled, and is counted.
C3_LongRowsDelivered ==
    (ErrorPolicy.enabled /\ FirstCall({"for_each", "for_each_raw"})) =>
        /\ \A k \in 1..Len(log) :
              NumFields(EventLine(log[k])) > Columns =>
                  log[k].ev = "callback" /\ log[k].col = Columns
        /\ \A s \in DataLineStarts :
              (NumFields(s) > Columns /\ LineEndOf(s) < current_) =>
                  Cardinality({k \in 1..Len(log) :
                      log[k].ev = "callback" /\ EventLine(log[k]) = s}) = 1
        /\ CountSoFar = Len(Callbacks)

C3_Witness ==
    /\ ErrorPolicy.enabled /\ FirstCall({"for_each"}) /\ ~running
    /\ Columns = 2
    /\ ret = 1
    /\ \E s \in DataLineStarts : NumFields(s) = 3 /\ ~HasCR(s)

\* ======================================================================
\* C4
\* ======================================================================
NoBlankLines == \A s \in LineStarts : At(s) # LF /\ At(s) # CR
ShortRows == {s \in DataLineStarts : NumFields(s) < Columns}

\* C4: after for_each on a line-tracking reader over a file without blank
\* lines that has a row of fewer than Columns fields, last_error() is
\* ColumnCountMismatch at the line number of the last such row.
C4_LastErrorNamesLastShortRow ==
    (/\ ErrorPolicy.track_line /\ skip_header
     /\ FirstCall({"for_each"}) /\ ~running
     /\ NoBlankLines /\ ShortRows # {}) =>
        /\ HasError
        /\ LastError.code = "ColumnCountMismatch"
        /\ LastError.line = LineNumberOf(Max(ShortRows))

\* ======================================================================
\* C5
\* ======================================================================
\* C5: with an enabled error policy every surface that skips a row for its
\* field count leaves ColumnCountMismatch in last_error().
C5_EverySkipRecordsMismatch ==
    ErrorPolicy.enabled =>
        ((\E k \in 1..Len(log) : log[k].ev = "skip") =>
            HasError /\ LastError.code = "ColumnCountMismatch")

\* ======================================================================
\* C6
\* ======================================================================
\* C6: a policy that does not track columns reports column 0.
C6_UntrackedColumnIsZero ==
    ~ErrorPolicy.track_column => LastError.column = 0

\* ======================================================================
\* C7
\* ======================================================================
\* C7: for_each_until delivers rows in file order, makes no invocation
\* after the callback answered false, and returns the number of
\* invocations made, the one that answered false included.
C7_UntilStopsAndCounts ==
    op = "for_each_until" =>
        /\ \A k \in 1..(Len(Callbacks) - 1) :
              /\ Callbacks[k].cur < Callbacks[k + 1].cur
              /\ Callbacks[k].keep
        /\ (Len(log) > 0 /\ ~log[Len(log)].keep) => ~running
        /\ \A k \in 1..(Len(log) - 1) : log[k].keep
        /\ CountSoFar = Len(Callbacks)

\* the callback answered true, then false, with a deliverable row left
C7_Witness ==
    /\ op = "for_each_until" /\ ~running
    /\ Len(Callbacks) = 2
    /\ Callbacks[1].keep /\ ~Callbacks[2].keep
    /\ ret = 2
    /\ current_ < end_
    /\ NumFields(current_) = Columns

\* ======================================================================
\* C8
\* ======================================================================
\* for_each of a Reader with an enabled error policy, run from cur to the
\* end of the range: the bag of the records its callback receives
RECURSIVE ForEachRun(_, _, _)
ForEachRun(cur, end, acc) ==
    IF cur < end
    THEN IF IsEmptyLine(cur)
         THEN ForEachRun(SkipEmptyLine(cur, end), end, acc)
         ELSE LET r == SplitRow(cur, end, FreshSlots, FreshSlots)
              IN  ForEachRun(r.next, end,
                     IF ColumnCountMismatch(r.col) THEN acc
                     ELSE acc (+) SetToBag({[starts |-> r.starts,
                                             ends |-> r.ends]}))
    ELSE acc

\* the Reader built over the same file with the same skip_header
ReaderRecords ==
    LET h == IF skip_header /\ SourceValid THEN parse_header(0, Len(file)).next
             ELSE 0
    IN  ForEachRun(h, Len(file), EmptyBag)

\* C8: for_each_parallel delivers exactly the records for_each of the
\* single-threaded error-checking Reader delivers, as a multiset.
C8_ParallelSameRecords ==
    pc = "returned" => pdelivered = ReaderRecords

C8_Witness ==
    /\ pc = "returned"
    /\ Len(chunks) >= 2
    /\ BagCardinality(pdelivered) >= 2
    /\ \E c \in 1..Len(chunks) : chunks[c][2] - chunks[c][1] >= 3

\* ======================================================================
\* C9
\* ======================================================================
\* C9: the chunk list has 1..K chunks, each non-empty, contiguous from B to
\* B+S, and every chunk start but the first follows a LF byte.
C9_ChunksPartitionOnNewlines ==
    (pc # "idle" /\ size_ > 0) =>
        /\ Len(chunks) >= 1
        /\ Len(chunks) <= num_threads_
        /\ chunks[1][1] = data_
        /\ chunks[Len(chunks)][2] = data_ + size_
        /\ \A c \in 1..Len(chunks) : chunks[c][1] < chunks[c][2]
        /\ \A c \in 2..Len(chunks) :
              /\ chunks[c][1] = chunks[c - 1][2]
              /\ At(chunks[c][1] - 1) = LF

C9_Witness ==
    /\ pc # "idle"
    /\ num_threads_ >= 2
    /\ Len(chunks) = 2
    /\ \A c \in 1..Len(chunks) : chunks[c][2] - chunks[c][1] >= 2
    /\ At(chunks[2][1] - 2) # LF

\* ======================================================================
\* C10
\* ======================================================================
\* C10: for_each_parallel returns only once every worker has finished; it
\* returns the sum of the per-worker counts, which is the number of
\* callback invocations made; counts[i] is written by worker i alone, when
\* it ends, and added to the total only after worker i was joined.
C10_JoinThenSum ==
    /\ \A w \in 1..Len(threads) :
          /\ threads[w] = "running" => counts[w] = 0
          /\ threads[w] = "finished" => counts[w] = wcount[w]
    /\ \A w \in 1..joined : threads[w] = "finished"
    /\ total = SumSeq(SubSeq(counts, 1, joined))
    /\ BagCardinality(pdelivered) = SumSeq(wcount)
    /\ (pc = "returned" /\ size_ > 0) =>
          /\ Len(threads) = Len(chunks)
          /\ \A w \in 1..Len(threads) : threads[w] = "finished"
          /\ ret = SumSeq(counts)
          /\ ret = BagCardinality(pdelivered)

C10_Witness ==
    /\ pc = "returned"
    /\ Len(threads) >= 2
    /\ ret >= 2
    /\ \A w \in 1..Len(threads) : counts[w] > 0

\* ======================================================================
\* The scanners called on their own: detail::find_field_end and
\* detail::find_newline over a buffer of any length
\* ======================================================================
\* longest buffer explored (two 16-byte loads and a remainder of one)
MaxScanLen == 33
\* the delimiters the scanner is called with
ScanDelims == {",", ";"}
\* the bytes that are not plain data for some scanner
ScanSpecials == ScanDelims \cup {LF, CR}
\* the buffers explored: plain data bytes, with at most one other byte
\* anywhere and at most one other as the last byte
ScanBuffers(max) ==
    UNION {{[i \in 1..n |-> IF i = p THEN c ELSE IF i = q THEN d ELSE "a"] :
               p \in 0..n, q \in {0, n}, c \in ScanSpecials,
               d \in ScanSpecials} :
           n \in 0..max}

\* the state of everything that is not a free-standing function call
NoReader ==
    /\ skip_header = FALSE
    /\ Columns = 1
    /\ column_names_ = NoNames
    /\ ret = 0
    /\ ReaderIdle
    /\ ParIdle

\* (mutant) a vector load that fetches one byte more than a lane
VectorLoadWide(p) == p..(p + VecWidth)

\* the offsets one unaligned 16-byte load at p reads
VectorLoad(p) == p..(p + VecWidth - 1)

\* the offsets the scalar loop of find_field_end reads, from index i on
RECURSIVE FieldEndScalarReads(_, _, _, _)
FieldEndScalarReads(data, len, delim, i) ==
    IF i < len
    THEN {data + i} \cup
         (IF IsFieldEnd(At(data + i), delim) THEN {}
          ELSE FieldEndScalarReads(data, len, delim, i + 1))
    ELSE {}

\* the offsets the 16-byte loop of find_field_end reads, from index i on
RECURSIVE FieldEndVectorReads(_, _, _, _)
FieldEndVectorReads(data, len, delim, i) ==
    IF i + VecWidth <= len
    THEN VectorLoad(data + i) \cup
         (IF \E j \in 0..(VecWidth - 1) : IsFieldEnd(At(data + i + j), delim)
          THEN {}
          ELSE FieldEndVectorReads(data, len, delim, i + VecWidth))
    ELSE FieldEndScalarReads(data, len, delim, i)

\* every offset find_field_end(data, len, delim) reads
FieldEndReads(data, len, delim) ==
    IF len >= VecWidth THEN FieldEndVectorReads(data, len, delim, 0)
    ELSE FieldEndScalarReads(data, len, delim, 0)

RECURSIVE NewlineScalarReads(_, _, _)
NewlineScalarReads(data, len, i) ==
    IF i < len
    THEN {data + i} \cup
         (IF At(data + i) = LF THEN {}
          ELSE NewlineScalarReads(data, len, i + 1))
    ELSE {}

RECURSIVE NewlineVectorReads(_, _, _)
NewlineVectorReads(data, len, i) ==
    IF i + VecWidth <= len
    THEN VectorLoad(data + i) \cup
         (IF \E j \in 0..(VecWidth - 1) : At(data + i + j) = LF THEN {}
          ELSE NewlineVectorReads(data, len, i + VecWidth))
    ELSE NewlineScalarReads(data, len, i)

\* every offset find_newline(data, len) reads
NewlineReads(data, len) ==
    IF len >= VecWidth THEN NewlineVectorReads(data, len, 0)
    ELSE NewlineScalarReads(data, len, 0)

\* A call find_field_end(data, len, delim) or find_newline(data, len) on
\* the first len bytes of a buffer, or on all but its last byte.
InitScan ==
    /\ file \in ScanBuffers(MaxScanLen)
    /\ \E len \in {Len(file), Len(file) - 1} \cap Nat :
       \E delim \in ScanDelims :
          args = [data |-> 0, len |-> len, delim |-> delim]
    /\ fn = "none"
    /\ result = <<>>
    /\ NoReader

\* everything a free-standing function call leaves alone
CallUnchanged ==
    UNCHANGED <<file, Columns, skip_header, column_names_, ret, readerVars,
                parVars, args>>

FindFieldEnd ==
    /\ fn = "none"
    /\ fn' = "find_field_end"
    /\ result' = [ret |-> find_field_end(args.data, args.len, args.delim),
                  reads |-> FieldEndReads(args.data, args.len, args.delim)]
    /\ CallUnchanged

FindNewline ==
    /\ fn = "none"
    /\ fn' = "find_newline"
    /\ result' = [ret |-> find_newline(args.data, args.len),
                  reads |-> NewlineReads(args.data, args.len)]
    /\ CallUnchanged

NextScan ==
    \/ FindFieldEnd
    \/ FindNewline

SpecScan == InitScan /\ [][NextScan]_vars

\* ======================================================================
\* C11
\* ======================================================================
\* the least index below len whose byte is in the set, or len
LeastIndex(data, len, bytes) ==
    Min({i \in 0..(len - 1) : At(data + i) \in bytes} \cup {len})

\* C11: find_field_end returns the least index i < len whose byte is the
\* delimiter, LF or CR, or len if there is none; find_newline returns the
\* least index i < len whose byte is LF, or len; and for every length the
\* 16-byte path and the scalar path return the same index.
C11_ScannersFindLeastIndex ==
    /\ fn = "find_field_end" =>
          /\ result.ret = LeastIndex(args.data, args.len, {args.delim, LF, CR})
          /\ FieldEndVector(args.data, args.len, args.delim, 0)
                = FieldEndScalar(args.data, args.len, args.delim, 0)
    /\ fn = "find_newline" =>
          /\ result.ret = LeastIndex(args.data, args.len, {LF})
          /\ NewlineVector(args.data, args.len, 0)
                = NewlineScalar(args.data, args.len, 0)

\* a terminator found by the scalar remainder after a 16-byte load, behind
\* a byte that is the other delimiter
C11_Witness ==
    /\ fn = "find_field_end"
    /\ args.len > VecWidth /\ args.len % VecWidth # 0
    /\ result.ret >= VecWidth /\ result.ret < args.len
    /\ \E i \in 0..(result.ret - 1) : At(i) \in ScanDelims

\* ======================================================================
\* C12
\* ======================================================================
\* C12: find_field_end and find_newline read only bytes at indices
\* 0..len-1 of data, by vector load or by scalar read, whatever len is.
C12_ScannersReadWithinLen ==
    fn \in {"find_field_end", "find_newline"} =>
        result.reads \subseteq args.data..(args.data + args.len - 1)

\* a buffer that goes on after len with an LF there, scanned to its end by
\* a 16-byte load and a scalar remainder
C12_Witness ==
    /\ fn = "find_newline"
    /\ args.len > VecWidth /\ args.len % VecWidth # 0
    /\ args.len < Len(file) /\ At(args.len) = LF
    /\ result.ret = args.len
    /\ result.reads = 0..(args.len - 1)

\* ======================================================================
\* Null detection: NullPolicy<...>::check and FieldRef::is_null
\* ======================================================================
\* template <bool EmptyIsNull, bool NAIsNull, bool NullIsNull,
\*           bool NoneIsNull, bool DashIsNull> struct NullPolicy
NullPolicy(EmptyIsNull, NAIsNull, NullIsNull, NoneIsNull, DashIsNull) ==
    [empty_is_null |-> EmptyIsNull, na_is_null |-> NAIsNull,
     null_is_null |-> NullIsNull, none_is_null |-> NoneIsNull,
     dash_is_null |-> DashIsNull]

\* the presets
NullStrict == NullPolicy(TRUE, FALSE, FALSE, FALSE, FALSE)
NullStandard == NullPolicy(TRUE, TRUE, TRUE, FALSE, FALSE)
NullLenient == NullPolicy(TRUE, TRUE, TRUE, TRUE, TRUE)
NoNullCheck == NullPolicy(FALSE, FALSE, FALSE, FALSE, FALSE)

\* every instantiation of the template
NullPolicies ==
    {NullPolicy(e, na, nu, no, d) :
        e \in BOOLEAN, na \in BOOLEAN, nu \in BOOLEAN, no \in BOOLEAN,
        d \in BOOLEAN}

\* the byte strings check compares with (memcmp)
NullWords == {<<"n", "u", "l", "l">>, <<"N", "U", "L", "L">>}
\* (mutant) the none family without its upper-case spelling
NoneWordsNoUpper == {<<"N", "o", "n", "e">>, <<"n", "o", "n", "e">>}
\* the none family
NoneWords == {<<"N", "o", "n", "e">>, <<"n", "o", "n", "e">>, <<"N", "O", "N", "E">>}

\* NullPolicy::check(begin, end), on the bytes of [begin, end)
check(P, slice) ==
    LET len == Len(slice)
    IN  IF P.empty_is_null /\ len = 0 THEN TRUE
        ELSE IF P.null_is_null /\ len = 4 /\ slice \in NullWords THEN TRUE
        ELSE IF P.none_is_null /\ len = 4 /\ slice \in NoneWords THEN TRUE
        ELSE IF P.na_is_null /\ len = 2 /\ slice = <<"N", "A">> THEN TRUE
        ELSE IF P.na_is_null /\ len = 3 /\ slice \in {<<"N", "/", "A">>, <<"n", "/", "a">>} THEN TRUE
        ELSE IF P.dash_is_null /\ len = 1 /\ slice[1] = "-" THEN TRUE
        ELSE FALSE

\* FieldRef::is_null<NullPol>()
is_null(NullPol, slice) == check(NullPol, slice)

\* The slices explored: the vocabulary, and every string one edit away from
\* a vocabulary word (one byte replaced, the last byte dropped, one byte
\* added at either end).
NullChars ==
    {"N", "A", "/", "n", "a", "u", "l", "U", "L", "o", "e", "O", "E", "-",
     "x", " "}
Vocabulary ==
    {<<>>, <<"N", "A">>, <<"N", "/", "A">>, <<"n", "/", "a">>,
     <<"n", "u", "l", "l">>, <<"N", "U", "L", "L">>,
     <<"N", "o", "n", "e">>, <<"n", "o", "n", "e">>, <<"N", "O", "N", "E">>,
     <<"-">>}
Edits(word) ==
    {word}
    \cup {[word EXCEPT ![i] = c] : i \in 1..Len(word), c \in NullChars}
    \cup {SubSeq(word, 1, Len(word) - 1) : i \in 1..Len(word)}
    \cup {word \o <<c>> : c \in NullChars}
    \cup {<<c>> \o word : c \in NullChars}
NullSlices(words) == UNION {Edits(word) : word \in words}

\* A field holding one of the slices and a policy to test it with
InitNull ==
    /\ file \in NullSlices(Vocabulary)
    /\ \E P \in NullPolicies : args = [policy |-> P]
    /\ fn = "none"
    /\ result = <<>>
    /\ NoReader

\* P::check(begin, end) for the policy P of the arguments
NullCheck ==
    /\ fn = "none"
    /\ fn' = "check"
    /\ result' = check(args.policy, file)
    /\ CallUnchanged

\* field.is_null(), the policy left to its default
IsNullDefault ==
    /\ fn = "none"
    /\ fn' = "is_null"
    /\ result' = is_null(NullStandard, file)
    /\ CallUnchanged

NextNull ==
    \/ NullCheck
    \/ IsNullDefault

SpecNull == InitNull /\ [][NextNull]_vars

\* ======================================================================
\* C13
\* ======================================================================
\* C13: for every policy, check returns true exactly on the empty slice
\* (empty toggle), "NA", "N/A", "n/a" (NA toggle), "null", "NULL" (null
\* toggle), "None", "none", "NONE" (none toggle) and "-" (dash toggle),
\* for the toggles the policy enables, byte for byte.
C13_NullVocabularyPerToggle ==
    fn = "check" =>
        LET P == args.policy
        IN  result =
              \/ P.empty_is_null /\ file = <<>>
              \/ P.na_is_null /\ file \in {<<"N", "A">>, <<"N", "/", "A">>, <<"n", "/", "a">>}
              \/ P.null_is_null /\ file \in {<<"n", "u", "l", "l">>, <<"N", "U", "L", "L">>}
              \/ P.none_is_null /\ file \in {<<"N", "o", "n", "e">>, <<"n", "o", "n", "e">>, <<"N", "O", "N", "E">>}
              \/ P.dash_is_null /\ file = <<"-">>

\* "NONE" found null by a policy that enables nothing but the none family
C13_Witness ==
    /\ fn = "check"
    /\ args.policy = NullPolicy(FALSE, FALSE, FALSE, TRUE, FALSE)
    /\ file = <<"N", "O", "N", "E">>
    /\ result = TRUE

\* ======================================================================
\* C14
\* ======================================================================
\* C14: with the Standard preset (the default of is_null) only the empty
\* slice and "NA", "N/A", "n/a" are null; "null", "NULL", the none family
\* and "-" are not.
C14_StandardIsEmptyAndNA ==
    fn = "is_null" => (result = (file \in {<<>>, <<"N", "A">>, <<"N", "/", "A">>, <<"n", "/", "a">>}))

\* ======================================================================
\* FieldRef::parse<Int>: integer parsing through std::from_chars
\* ======================================================================
\* longest slice handed to parse<Int>
MaxIntLen == 4
\* the bytes of those slices: digits, signs and a byte that is neither
IntDigits == {"0", "1", "2", "5", "7", "8", "9"}
IntChars == IntDigits \cup {"+", "-", "x"}
IntSlices(max) == UNION {[1..n -> IntChars] : n \in 0..max}

\* the integral types parse is instantiated with here
Int8 == [signed |-> TRUE, min |-> -128, max |-> 127]
UInt8 == [signed |-> FALSE, min |-> 0, max |-> 255]
IntTypes == {Int8, UInt8}

IsDigit(c) ==
    c \in {"0", "1", "2", "3", "4", "5", "6", "7", "8", "9"}
DigitValue(c) ==
    CASE c = "0" -> 0 [] c = "1" -> 1 [] c = "2" -> 2 [] c = "3" -> 3
      [] c = "4" -> 4 [] c = "5" -> 5 [] c = "6" -> 6 [] c = "7" -> 7
      [] c = "8" -> 8 [] c = "9" -> 9

\* the value of a string of decimal digits
RECURSIVE DecimalValue(_)
DecimalValue(digits) ==
    IF digits = <<>> THEN 0
    ELSE 10 * DecimalValue(SubSeq(digits, 1, Len(digits) - 1))
         + DigitValue(digits[Len(digits)])

\* the end of the run of digits that starts at index i of the slice
RECURSIVE DigitRunEnd(_, _)
DigitRunEnd(slice, i) ==
    IF i <= Len(slice) /\ IsDigit(slice[i]) THEN DigitRunEnd(slice, i + 1)
    ELSE i

\* (mutant) a plus sign is taken as well
SignAcceptedOrPlus(T, c) == T.signed /\ c \in {"-", "+"}

\* the sign from_chars recognises: a minus, for signed types only
SignAccepted(T, c) == T.signed /\ c = "-"

\* std::from_chars(first, last, value) for the integral type T, base 10:
\* ptr is the number of bytes consumed
from_chars(slice, T) ==
    LET signed == Len(slice) > 0 /\ SignAccepted(T, slice[1])
        first == IF signed THEN 2 ELSE 1
        last == DigitRunEnd(slice, first)
        magnitude == DecimalValue(SubSeq(slice, first, last - 1))
        value == IF signed /\ slice[1] = "-" THEN 0 - magnitude ELSE magnitude
    IN  IF last = first
        THEN [ptr |-> 0, ec |-> "invalid_argument", value |-> 0]
        ELSE IF value < T.min \/ value > T.max
        THEN [ptr |-> last - 1, ec |-> "result_out_of_range", value |-> 0]
        ELSE [ptr |-> last - 1, ec |-> "ok", value |-> value]

\* FieldRef::parse<T>() for integral T
parse_int(slice, T) ==
    LET r == from_chars(slice, T)
    IN  IF r.ec = "ok" /\ r.ptr = Len(slice)
        THEN [ok |-> TRUE, value |-> r.value, error |-> "Ok"]
        ELSE [ok |-> FALSE, value |-> 0,
              error |-> IF r.ec = "result_out_of_range" THEN "OutOfRange"
                        ELSE "InvalidInteger"]

InitInt ==
    /\ file \in IntSlices(MaxIntLen)
    /\ \E T \in IntTypes : args = [T |-> T]
    /\ fn = "none"
    /\ result = <<>>
    /\ NoReader

ParseInt ==
    /\ fn = "none"
    /\ fn' = "parse_int"
    /\ result' = parse_int(file, args.T)
    /\ CallUnchanged

\* FieldRef::value_or<T>(default_value), called with the largest T
ValueOrInt ==
    /\ fn = "none"
    /\ fn' = "value_or_int"
    /\ result' = LET r == parse_int(file, args.T)
                 IN  IF r.ok THEN r.value ELSE args.T.max
    /\ CallUnchanged

NextInt ==
    \/ ParseInt
    \/ ValueOrInt

SpecInt == InitInt /\ [][NextInt]_vars

\* ======================================================================
\* C15
\* ======================================================================
\* the slice from index i on is one or more digits and nothing else
AllDigitsFrom(slice, i) ==
    /\ i <= Len(slice)
    /\ \A k \in i..Len(slice) : IsDigit(slice[k])
\* the slice is a literal: digits with, for signed types, one of the given
\* signs in front
IsLiteral(slice, T, signs) ==
    \/ AllDigitsFrom(slice, 1)
    \/ T.signed /\ Len(slice) > 0 /\ slice[1] \in signs
         /\ AllDigitsFrom(slice, 2)
LiteralValue(slice) ==
    IF slice[1] = "-" THEN 0 - DecimalValue(Tail(slice))
    ELSE IF slice[1] = "+" THEN DecimalValue(Tail(slice))
    ELSE DecimalValue(slice)
Fits(v, T) == T.min <= v /\ v <= T.max
\* the longest literal the slice starts with (<<>> when it starts with none)
LiteralPrefix(slice, T) ==
    LET ns == {n \in 1..Len(slice) : IsLiteral(SubSeq(slice, 1, n), T, {"-"})}
    IN  IF ns = {} THEN <<>> ELSE SubSeq(slice, 1, Max(ns))

\* C15 as stated: parse<Int> succeeds iff the whole slice is a literal with
\* an optional leading '+' or '-' (signed types) whose value fits, and
\* returns it; OutOfRange when the literal does not fit; InvalidInteger for
\* every other slice.
C15_IntLiteralWithEitherSign ==
    fn = "parse_int" =>
        LET T == args.T
            lit == IsLiteral(file, T, {"+", "-"})
        IN  /\ result.ok = (lit /\ Fits(LiteralValue(file), T))
            /\ result.ok => result.value = LiteralValue(file)
            /\ ~result.ok =>
                  result.error = IF lit THEN "OutOfRange" ELSE "InvalidInteger"

\* C15, amended: parse<Int> succeeds iff the whole slice is digits with an
\* optional leading '-' (signed types; never '+') whose value fits, and
\* returns it; it returns OutOfRange iff the slice starts with such a
\* literal whose value does not fit, whatever follows it; and
\* InvalidInteger for every other slice.
C15_IntLiteralMinusOnly ==
    fn = "parse_int" =>
        LET T == args.T
            lit == IsLiteral(file, T, {"-"})
            pre == LiteralPrefix(file, T)
        IN  /\ result.ok = (lit /\ Fits(LiteralValue(file), T))
            /\ result.ok => result.value = LiteralValue(file)
            /\ ~result.ok =>
                  result.error =
                     IF pre # <<>> /\ ~Fits(LiteralValue(pre), T)
                     THEN "OutOfRange" ELSE "InvalidInteger"

\* a signed parse of '+' followed by digits that fit, refused
C15_Witness ==
    /\ fn = "parse_int"
    /\ args.T = Int8
    /\ Len(file) = 3 /\ file[1] = "+" /\ AllDigitsFrom(file, 2)
    /\ Fits(DecimalValue(Tail(file)), Int8)
    /\ ~result.ok /\ result.error = "InvalidInteger"

\* ======================================================================
\* FieldRef::parse<Float>: parse_double_fast, then std::strtod
\* ======================================================================
\* longest slice handed to parse<Float>
MaxFloatLen == 4
\* The bytes of those slices.  With '1' the only digit and no letter but
\* 'e' and 'x', none of strtod's other spellings (hexadecimal, infinity,
\* nan) can occur.
FloatChars == {"1", ".", "-", "+", "e", " ", "x"}
FloatSlices(max) == UNION {[1..n -> FloatChars] : n \in 0..max}
\* what the mapping holds after the field: nothing (the field ends the
\* file), a delimiter, or a line end and the next row
FloatAfter == {<<>>, <<Delim>>, <<LF, "1">>, <<LF, "x">>}
\* What lies past the end of the mapping when strtod reads there: a zero
\* byte (the rest of the last page), bytes of another mapping that go on
\* like a number, or no mapping at all.
Beyond == {"zero", "digit", "unmapped"}

Signs == {"+", "-"}
Digits == {"0", "1", "2", "3", "4", "5", "6", "7", "8", "9"}
\* std::isspace in the "C" locale
Spaces == {" ", "\t", LF, CR}

\* the first pointer from p on whose byte is not in the set, or the end
RECURSIVE RunEnd(_, _, _)
RunEnd(p, end, bytes) ==
    IF p < end /\ At(p) \in bytes THEN RunEnd(p + 1, end, bytes) ELSE p

\* FieldRef::parse_double_fast(x): whether it returns true, and x
parse_double_fast(begin, end) ==
    IF begin >= end THEN [ok |-> FALSE, x |-> <<>>]
    ELSE LET negative == At(begin) = "-"
             p1 == IF At(begin) \in Signs THEN begin + 1 ELSE begin
         IN  IF p1 >= end THEN [ok |-> FALSE, x |-> <<>>]
             ELSE LET p2 == RunEnd(p1, end, Digits)
                      dot == p2 < end /\ At(p2) = "."
                      p3 == IF dot THEN RunEnd(p2 + 1, end, Digits) ELSE p2
                  IN  [ok |-> p3 = end,
                       x |-> [negative |-> negative,
                              int_part |-> Bytes(p1, p2),
                              frac |-> IF dot THEN Bytes(p2 + 1, p3)
                                       ELSE <<>>]]

\* the byte strtod sees at p; past the mapping it sees what Beyond says
Peek(p) == IF p < Len(file) THEN At(p) ELSE "beyond"

\* std::strtod(nptr, &endptr) on the bytes of the mapping from nptr on,
\* reading them as zero-terminated: endptr, and the last pointer it read
strtod(nptr) ==
    LET m == Len(file)
        a == RunEnd(nptr, m, Spaces)
        b == IF Peek(a) \in Signs THEN a + 1 ELSE a
        c == RunEnd(b, m, Digits)
        dot == Peek(c) = "."
        d == IF dot THEN RunEnd(c + 1, m, Digits) ELSE c
        ndigits == (c - b) + (IF dot THEN d - c - 1 ELSE 0)
        e1 == IF Peek(d) \in {"e", "E"} THEN d + 1 ELSE d
        e2 == IF e1 > d /\ Peek(e1) \in Signs THEN e1 + 1 ELSE e1
        e3 == IF e1 > d THEN RunEnd(e2, m, Digits) ELSE d
    IN  IF ndigits = 0 THEN [endptr |-> nptr, last |-> d]
        ELSE IF e1 > d /\ e3 > e2 THEN [endptr |-> e3, last |-> e3]
        ELSE [endptr |-> d, last |-> e3]

\* FieldRef::parse<T>() for floating-point T, on the field [begin, end) of
\* the mapping; beyond is what a read past the mapping meets
parse_float(begin, end, beyond) ==
    LET fast == parse_double_fast(begin, end)
        s == strtod(begin)
    IN  IF fast.ok THEN [ok |-> TRUE, value |-> fast.x, error |-> "Ok"]
        ELSE IF s.last >= Len(file) /\ beyond = "unmapped"
        THEN [ok |-> FALSE, value |-> <<>>, error |-> "SIGSEGV"]
        ELSE IF s.last >= Len(file) /\ beyond = "digit"
        THEN [ok |-> FALSE, value |-> <<>>, error |-> "InvalidFloat"]
        ELSE IF s.endptr = end
        THEN [ok |-> TRUE, value |-> [text |-> Bytes(begin, s.endptr)],
              error |-> "Ok"]
        ELSE [ok |-> FALSE, value |-> <<>>, error |-> "InvalidFloat"]

\* a field at the start of the mapping, followed by one of FloatAfter
InitFloat ==
    /\ \E slice \in FloatSlices(MaxFloatLen) : \E after \in FloatAfter :
          /\ file = slice \o after
          /\ args = [begin |-> 0, end |-> Len(slice)]
    /\ fn = "none"
    /\ result = <<>>
    /\ NoReader

ParseFloat ==
    /\ fn = "none"
    /\ fn' = "parse_float"
    /\ \E beyond \in Beyond :
          result' = parse_float(args.begin, args.end, beyond)
    /\ CallUnchanged

NextFloat == ParseFloat

SpecFloat == InitFloat /\ [][NextFloat]_vars

\* ======================================================================
\* C16
\* ======================================================================
\* digits, at most one '.', at least one digit
IsMantissa(t) ==
    /\ \A i \in 1..Len(t) : t[i] \in Digits \cup {"."}
    /\ Cardinality({i \in 1..Len(t) : t[i] = "."}) <= 1
    /\ \E i \in 1..Len(t) : t[i] \in Digits
\* an optional sign and one or more digits
IsExponent(t) ==
    LET u == IF t # <<>> /\ t[1] \in Signs THEN Tail(t) ELSE t
    IN  u # <<>> /\ \A i \in 1..Len(u) : u[i] \in Digits
\* optional sign, mantissa, optional exponent
IsDecimalNotation(t) ==
    LET u == IF t # <<>> /\ t[1] \in Signs THEN Tail(t) ELSE t
        es == {i \in 1..Len(u) : u[i] \in {"e", "E"}}
    IN  IF es = {} THEN IsMantissa(u)
        ELSE /\ IsMantissa(SubSeq(u, 1, Min(es) - 1))
             /\ IsExponent(SubSeq(u, Min(es) + 1, Len(u)))

\* the slice parse<Float> was called on
FloatSlice == Bytes(args.begin, args.end)

\* C16: parse<Float> returns a value iff the entire slice is decimal
\* notation (optional sign, integer and/or fractional part with at least
\* one digit, optional exponent); every other slice yields InvalidFloat.
C16_FloatIffDecimalNotation ==
    fn = "parse_float" =>
        /\ result.ok = IsDecimalNotation(FloatSlice)
        /\ ~result.ok => result.error = "InvalidFloat"

\* ======================================================================
\* FieldRef::parse_date and FieldRef::parse_datetime
\* ======================================================================
\* The slices explored are put together from parts: a year, a separator,
\* a month, a separator, a day; for a date-time also a separator and
\* hours, minutes and seconds; with or without a byte too many or too few.
YearParts ==
    {<<"2", "0", "2", "4">>, <<"2", "0", "2", "3">>,
     <<"1", "9", "0", "0">>, <<"2", "0", "0", "0">>,
     <<"2", "a", "2", "4">>, <<"-", "0", "2", "4">>,
     <<"x", "0", "2", "4">>}
MonthParts ==
    {<<"0", "0">>, <<"0", "1">>, <<"0", "2">>, <<"0", "4">>, <<"1", "1">>,
     <<"1", "2">>, <<"1", "3">>, <<"1", "x">>, <<"x", "1">>, <<"-", "1">>}
DayParts ==
    {<<"0", "0">>, <<"0", "1">>, <<"2", "8">>, <<"2", "9">>, <<"3", "0">>,
     <<"3", "1">>, <<"3", "2">>, <<"3", "x">>, <<"x", "1">>, <<"-", "1">>}
DateSeparators == {"-", "/"}
DateTimeSeparators == {" ", "T", "x"}
HourParts ==
    {<<"0", "0">>, <<"2", "3">>, <<"2", "4">>, <<"1", "x">>, <<"-", "1">>}
MinuteParts ==
    {<<"0", "0">>, <<"5", "9">>, <<"6", "0">>, <<"x", "0">>}
SecondParts ==
    {<<"0", "0">>, <<"5", "9">>, <<"6", "0">>, <<"6", "1">>, <<"-", "1">>}
TimeSeparators == {":", "-"}
\* the slice, the slice with one more byte, the slice without its last
Lengths(t) == {t, t \o <<"x">>, SubSeq(t, 1, Len(t) - 1)}

DateTexts(years) ==
    {y \o <<s1>> \o m \o <<s2>> \o d :
        y \in years, s1 \in DateSeparators, m \in MonthParts,
        s2 \in DateSeparators, d \in DayParts}
DateSlices(years) == UNION {Lengths(t) : t \in DateTexts(years)}

\* the date parts of the date-times explored
DateTimeDates ==
    {<<"2", "0", "2", "4", "-", "0", "2", "-", "2", "9">>,
     <<"2", "0", "2", "3", "-", "0", "2", "-", "2", "9">>,
     <<"2", "0", "2", "4", "-", "1", "3", "-", "0", "1">>,
     <<"2", "0", "2", "4", "/", "0", "1", "/", "1", "5">>,
     <<"2", "a", "2", "4", "-", "0", "1", "-", "1", "5">>}
DateTimeTexts(dates) ==
    {d \o <<s>> \o h \o <<c1>> \o m \o <<c2>> \o sec :
        d \in dates, s \in DateTimeSeparators, h \in HourParts,
        c1 \in TimeSeparators, m \in MinuteParts, c2 \in TimeSeparators,
        sec \in SecondParts}
DateTimeSlices(dates) ==
    UNION {Lengths(t) : t \in DateTimeTexts(dates)}

\* int
Int32 == [signed |-> TRUE, min |-> (0 - 2147483647) - 1, max |-> 2147483647]

\* std::chrono::year::ok(): the value is kept in a short
YearOk(y) == -32767 <= y /\ y <= 32767
\* std::chrono::month{static_cast<unsigned>(m)}, day{...}: the value is
\* kept in an unsigned char
ToUnsignedChar(v) == v % 256
IsLeap(y) == y % 4 = 0 /\ (y % 100 # 0 \/ y % 400 = 0)
LastDay(y, m) ==
    IF m = 2 THEN (IF IsLeap(y) THEN 29 ELSE 28)
    ELSE IF m \in {4, 6, 9, 11} THEN 30 ELSE 31
\* std::chrono::year_month_day::ok()
YmdOk(y, m, d) ==
    /\ YearOk(y)
    /\ 1 <= m /\ m <= 12
    /\ 1 <= d /\ d <= LastDay(y, m)

\* the bytes [b, e) of a slice, counted from 0
Part(slice, b, e) == SubSeq(slice, b + 1, e)

\* FieldRef::parse_date()
parse_date(slice) ==
    LET fail == [ok |-> FALSE, value |-> <<>>, error |-> "InvalidDate"]
    IN  IF Len(slice) < 10 THEN fail
        ELSE LET year == from_chars(Part(slice, 0, 4), Int32)
                 month == from_chars(Part(slice, 5, 7), Int32)
                 day == from_chars(Part(slice, 8, 10), Int32)
                 m == ToUnsignedChar(month.value)
                 d == ToUnsignedChar(day.value)
             IN  IF year.ec # "ok" \/ slice[5] # "-" THEN fail
                 ELSE IF month.ec # "ok" \/ slice[8] # "-" THEN fail
                 ELSE IF day.ec # "ok" THEN fail
                 ELSE IF ~YmdOk(year.value, m, d) THEN fail
                 ELSE [ok |-> TRUE,
                       value |-> [year |-> year.value, month |-> m,
                                  day |-> d],
                       error |-> "Ok"]

\* FieldRef::parse_datetime()
parse_datetime(slice) ==
    LET fail == [ok |-> FALSE, value |-> <<>>, error |-> "InvalidDateTime"]
    IN  IF Len(slice) < 19 THEN fail
        ELSE LET date_result == parse_date(slice)
                 sep == slice[11]
                 hour == from_chars(Part(slice, 11, 13), Int32)
                 minute == from_chars(Part(slice, 14, 16), Int32)
                 second == from_chars(Part(slice, 17, 19), Int32)
             IN  IF ~date_result.ok
                 THEN [ok |-> FALSE, value |-> <<>>,
                       error |-> date_result.error]
                 ELSE IF sep # " " /\ sep # "T" THEN fail
                 ELSE IF hour.ec # "ok" \/ slice[14] # ":" THEN fail
                 ELSE IF minute.ec # "ok" \/ slice[17] # ":" THEN fail
                 ELSE IF second.ec # "ok" THEN fail
                 ELSE IF \/ hour.value < 0 \/ hour.value > 23
                         \/ minute.value < 0 \/ minute.value > 59
                         \/ second.value < 0 \/ second.value > 60
                 THEN fail
                 ELSE [ok |-> TRUE,
                       value |-> [date |-> date_result.value,
                                  hour |-> hour.value,
                                  minute |-> minute.value,
                                  second |-> second.value],
                       error |-> "Ok"]

InitDate ==
    /\ file \in DateSlices(YearParts) \cup DateTimeSlices(DateTimeDates)
    /\ args = <<>>
    /\ fn = "none"
    /\ result = <<>>
    /\ NoReader

ParseDate ==
    /\ fn = "none"
    /\ fn' = "parse_date"
    /\ result' = parse_date(file)
    /\ CallUnchanged

ParseDatetime ==
    /\ fn = "none"
    /\ fn' = "parse_datetime"
    /\ result' = parse_datetime(file)
    /\ CallUnchanged

NextDate ==
    \/ ParseDate
    \/ ParseDatetime

SpecDate == InitDate /\ [][NextDate]_vars

\* ======================================================================
\* C17
\* ======================================================================
\* the slice is exactly DDDD-DD-DD, D a decimal digit
IsDateShape(t) ==
    /\ Len(t) = 10
    /\ t[5] = "-" /\ t[8] = "-"
    /\ \A i \in {1, 2, 3, 4, 6, 7, 9, 10} : t[i] \in Digits
\* ... and names a day of the calendar
IsCalendarDate(y, m, d) ==
    /\ m \in 1..12
    /\ d >= 1
    /\ d <= (CASE m \in {1, 3, 5, 7, 8, 10, 12} -> 31
               [] m \in {4, 6, 9, 11} -> 30
               [] m = 2 -> IF y % 400 = 0 \/ (y % 4 = 0 /\ y % 100 # 0)
                           THEN 29 ELSE 28)

\* C17: parse_date succeeds iff the slice is exactly 10 bytes DDDD-DD-DD
\* naming a valid calendar date, and returns its year, month and day;
\* every other slice yields InvalidDate.
C17_DateIffExactShape ==
    fn = "parse_date" =>
        LET y == DecimalValue(SubSeq(file, 1, 4))
            m == DecimalValue(SubSeq(file, 6, 7))
            d == DecimalValue(SubSeq(file, 9, 10))
            valid == IsDateShape(file) /\ IsCalendarDate(y, m, d)
        IN  /\ result.ok = valid
            /\ result.ok => result.value = [year |-> y, month |-> m, day |-> d]
            /\ ~result.ok => result.error = "InvalidDate"

\* ======================================================================
\* C18
\* ======================================================================
\* C18: every failing parse_datetime returns InvalidDateTime, whatever
\* made it fail.
C18_DatetimeFailsWithInvalidDateTime ==
    (fn = "parse_datetime" /\ ~result.ok) => result.error = "InvalidDateTime"

\* ======================================================================
\* MmapSource::MmapSource(path) (the Unix branch), and a Reader built on
\* the source it leaves
\* ======================================================================
\* longest file opened
MaxMapLen == 3

\* MmapSource's members as their default initialisers leave them; pc is
\* the constructor's position and failed the call that failed, if any
NewSource ==
    [pc |-> "open", data_ |-> "nullptr", size_ |-> 0, fd_ |-> -1,
     failed |-> "none"]

\* the descriptor ::open returns
Fd == 3

InitMmap ==
    /\ file \in Bodies(MaxMapLen)
    /\ skip_header \in BOOLEAN
    /\ Columns = 1
    /\ column_names_ = NoNames
    /\ ret = 0
    /\ ReaderIdle
    /\ ParIdle
    /\ fn = "none"
    /\ args = <<>>
    /\ result = NewSource

SourceUnchanged ==
    UNCHANGED <<file, Columns, skip_header, column_names_, ret, readerVars,
                parVars, args>>

\* fd_ = ::open(path.c_str(), O_RDONLY); if (fd_ < 0) return;
Open ==
    /\ fn = "none"
    /\ result.pc = "open"
    /\ fn' = "MmapSource"
    /\ \E opened \in BOOLEAN :
          result' = IF opened
                    THEN [result EXCEPT !.fd_ = Fd, !.pc = "fstat"]
                    ELSE [result EXCEPT !.fd_ = -1, !.pc = "done",
                                        !.failed = "open"]
    /\ SourceUnchanged

\* ::fstat(fd_, &st), size_ = st.st_size, and the test size_ > 0
Fstat ==
    /\ result.pc = "fstat"
    /\ \E ok \in BOOLEAN :
          result' = IF ok
                    THEN [result EXCEPT
                             !.size_ = Len(file),
                             !.pc = IF Len(file) > 0 THEN "mmap" ELSE "done"]
                    ELSE [result EXCEPT !.fd_ = -1, !.pc = "done",
                                        !.failed = "fstat"]
    /\ UNCHANGED fn
    /\ SourceUnchanged

\* data_ = ::mmap(...); if (data_ == MAP_FAILED) { ...; return; }
Mmap ==
    /\ result.pc = "mmap"
    /\ \E mapped \in BOOLEAN :
          result' = IF mapped
                    THEN [result EXCEPT !.data_ = "mapped", !.pc = "done"]
                    ELSE [result EXCEPT !.fd_ = -1, !.data_ = "nullptr",
                                        !.pc = "done", !.failed = "mmap"]
    /\ UNCHANGED fn
    /\ SourceUnchanged

\* MmapSource::valid(), size(), data()
valid(source) == source.data_ # "nullptr"
size(source) == source.size_
data(source) == source.data_

\* Reader::Reader on the source: current_(source_.data()),
\* end_(current_ + source_.size()), then the header.  The pointers are
\* offsets from source_.data().
ReaderOnSource ==
    /\ result.pc = "done"
    /\ fn' = "Reader"
    /\ result' = [result EXCEPT !.pc = "built"]
    /\ end_' = size(result)
    /\ LET h == IF skip_header /\ valid(result)
                THEN parse_header(0, size(result))
                ELSE [names |-> NoNames, next |-> 0, parsed |-> FALSE,
                      lines |-> 0]
       IN  /\ current_' = h.next
           /\ column_names_' = h.names
           /\ header_parsed_' = h.parsed
           /\ line_number_' = IF ErrorPolicy.track_line THEN h.lines ELSE 0
    /\ UNCHANGED <<file, Columns, skip_header, ret, last_error_, op, running,
                   count, starts, ends, log, ncalls, ErrorPolicy, parVars,
                   args>>

NextMmap ==
    \/ Open
    \/ Fstat
    \/ Mmap
    \/ ReaderOnSource

SpecMmap == InitMmap /\ [][NextMmap]_vars

\* ======================================================================
\* C20
\* ======================================================================
\* C20: when the construction of an MmapSource fails at any step (open,
\* size, mapping), the source reports valid() false, size() 0 and data()
\* null, and a Reader built on it sees an empty range.
C20_FailedSourceIsEmpty ==
    (result.pc \in {"done", "built"} /\ result.failed # "none") =>
        /\ ~valid(result)
        /\ size(result) = 0
        /\ data(result) = "nullptr"
        /\ result.pc = "built" => end_ - current_ = 0

\* ======================================================================
\* C19
\* ======================================================================
\* every CR of the file is the CR of a line end: an LF follows it, or it
\* is the last byte
CROnlyAtLineEnds ==
    \A p \in 0..(Len(file) - 1) :
        At(p) = CR => (p = Len(file) - 1 \/ At(p + 1) = LF)
\* data rows of exactly Columns fields, each ended by LF, by CRLF or, the
\* last one, by the end of the file (with or without a CR)
RowsWithAnyLineEnd ==
    /\ Len(file) > 0
    /\ CROnlyAtLineEnds
    /\ \A s \in DataLineStarts :
          LineBodyEnd(s) > s /\ NumFields(s) = Columns

\* C19: for data rows of exactly N fields, for_each invokes the callback
\* once per row with the row's field bytes, never with the CR of a line
\* end, and returns the number of rows, whichever of LF and CRLF ends
\* each line and whether or not the last line is terminated; so the count
\* and the fields are the same for every choice of line ends.
C19_LineEndsDoNotMatter ==
    (FirstCall({"for_each"}) /\ RowsWithAnyLineEnd) =>
        LET rows == SortedSeq(DataLineStarts)
        IN  /\ Len(Callbacks) <= Len(rows)
            /\ Len(Callbacks) = Len(log)
            /\ \A k \in 1..Len(Callbacks) :
                  /\ EventFields(Callbacks[k]) = RowFields(rows[k])
                  /\ \A i \in 1..Columns :
                        \A j \in 1..Len(EventFields(Callbacks[k])[i]) :
                           EventFields(Callbacks[k])[i][j] # CR
            /\ ~running => (ret = Len(rows) /\ Len(Callbacks) = Len(rows))

\* two rows delivered, one ended by CRLF and one whose line has no CR,
\* the last one ended by the end of the file
C19_Witness ==
    /\ FirstCall({"for_each"}) /\ RowsWithAnyLineEnd /\ ~running
    /\ ret = 2
    /\ \E s \in DataLineStarts :
          LineEndOf(s) < Len(file) /\ At(LineEndOf(s) - 1) = CR
    /\ \E s \in DataLineStarts : ~HasCR(s)
    /\ At(Len(file) - 1) # LF

\* ======================================================================
\* C21
\* ======================================================================
\* a line that holds nothing but its terminator, LF or CRLF
BlankLine(s) == LineBodyEnd(s) = s
BlankLines == {s \in DataLineStarts : BlankLine(s)}

HeaderLines == IF skip_header THEN 1 ELSE 0

\* C22 as claimed: with line tracking on, the line of the k-th row the
\* call processes counts the header and the non-blank rows up to it only.
C22_BlankLinesNotNumbered ==
    (ErrorPolicy.track_line /\ ncalls = 1) =>
        \A k \in 1..Len(log) : log[k].line = HeaderLines + k

\* the CR bytes at the start of the line at s the iterator steps over as
\* lines of their own: those of the leading run of CR bytes that do not
\* end the line
LeadingCRs(s) ==
    {p \in s..(LineEndOf(s) - 2) : \A q \in s..p : At(q) = CR}
CRSteps(upto) ==
    SumSeq([i \in 1..Len(SortedSeq({s \in DataLineStarts : s <= upto}))
              |-> Cardinality(LeadingCRs(
                     SortedSeq({s \in DataLineStarts : s <= upto})[i]))])

\* C22 as the code has it: the counter advances once for the header and
\* once per line the iterator steps over or processes, blank lines
\* included, plus once per CR it steps over at a line start; the line
\* recorded with a row is the 1-based number of the row's line in the
\* file when no such CR precedes it.
C22_EveryLineNumbered ==
    ErrorPolicy.track_line =>
        /\ \A k \in 1..Len(log) :
              log[k].line = LineNumberOf(EventLine(log[k]))
                               + CRSteps(log[k].cur)
        /\ (~running /\ ncalls > 0 /\ current_ >= end_ /\ Len(file) > 0) =>
              line_number_ = Cardinality(LineStarts) + CRSteps(Len(file))

\* a row skipped for its column count after a header and a blank line:
\* the error names line 3
C22_Witness ==
    /\ ErrorPolicy.track_line /\ skip_header /\ ncalls = 1 /\ ~running
    /\ BlankLines # {}
    /\ HasError /\ LastError.line = 3
    /\ Len(log) = 1 /\ log[1].ev = "skip"

\* ======================================================================
\* C23
\* ======================================================================
\* the line at s has a CR inside its body, after its first byte
StrayCR(s) == \E p \in (s + 1)..(LineBodyEnd(s) - 1) : At(p) = CR

\* C23: a CR in the middle of a line is field data: the row is split at
\* its delimiters only, so the iterator finds the row's fields (up to
\* Columns of them) with the CR inside the field it occurs in.
C23_StrayCRIsFieldData ==
    \A k \in 1..Len(log) :
        (log[k].cur = EventLine(log[k]) /\ StrayCR(log[k].cur)) =>
            /\ log[k].col = Min({NumFields(log[k].cur), Columns})
            /\ \A i \in 1..log[k].col :
                  Bytes(log[k].starts[i - 1], log[k].ends[i - 1])
                     = RowFields(log[k].cur)[i]

\* ======================================================================
\* C24
\* ======================================================================
\* the row an event is about: from the cursor to the end of its line
RowEnd(ev) == LineBodyEnd(EventLine(ev))
RowDelims(ev) == {p \in ev.cur..(RowEnd(ev) - 1) : At(p) = Delim}

\* C24: a row with exactly Columns - 1 delimiters is found to have
\* Columns fields and is delivered, under every error policy; when its
\* last byte is a delimiter the last field is the empty slice at the end
\* of the row.
C24_TerminalDelimiterGivesEmptyField ==
    \A k \in 1..Len(log) :
        Cardinality(RowDelims(log[k])) = Columns - 1 =>
            /\ log[k].ev = "callback"
            /\ log[k].col = Columns
            /\ At(RowEnd(log[k]) - 1) = Delim =>
                  /\ log[k].starts[Columns - 1] = RowEnd(log[k])
                  /\ log[k].ends[Columns - 1] = RowEnd(log[k])

\* ======================================================================
\* C25
\* ======================================================================
\* the field references of an invocation are inside the row and in order,
\* whatever a read of its slots yields
FieldsInsideRow(ev) ==
    \A i \in 0..(Columns - 1) :
        \A b \in SlotReads(ev.starts[i]) : \A e \in SlotReads(ev.ends[i]) :
            /\ ev.cur <= b /\ b <= e /\ e <= RowEnd(ev)
            /\ i > 0 => \A pe \in SlotReads(ev.ends[i - 1]) : pe <= b

\* C25: every field reference a callback is handed, under every error
\* policy, has begin <= end inside the bytes of the current row, and the
\* fields of a record are in order and do not overlap.
C25_FieldRefsInsideRow ==
    \A k \in 1..Len(log) : log[k].ev = "callback" => FieldsInsideRow(log[k])

\* ======================================================================
\* Reader and ParallelReader constructed on the same file
\* ======================================================================
\* most bytes of a file one of the two readers is constructed on
MaxHdrLen == 4

InitHeader ==
    /\ file \in Bodies(MaxHdrLen)
    /\ skip_header \in BOOLEAN
    /\ Columns \in 1..MaxCols
    /\ column_names_ = NoNames
    /\ ret = 0
    /\ ReaderIdle
    /\ ParIdle
    /\ CallIdle

\* what Reader::Reader leaves for the file: the header's names and cursor
ReaderHeader ==
    IF skip_header /\ SourceValid THEN parse_header(0, Len(file))
    ELSE [names |-> NoNames, next |-> 0, parsed |-> FALSE, lines |-> 0]

\* Reader::Reader(filepath, skip_header)
ReaderCtor ==
    /\ fn = "none"
    /\ fn' = "Reader"
    /\ end_' = Len(file)
    /\ current_' = ReaderHeader.next
    /\ column_names_' = ReaderHeader.names
    /\ header_parsed_' = ReaderHeader.parsed
    /\ line_number_' = IF ErrorPolicy.track_line THEN ReaderHeader.lines
                       ELSE 0
    /\ UNCHANGED <<file, Columns, skip_header, ret, last_error_, op, running,
                   count, starts, ends, log, ncalls, ErrorPolicy, parVars,
                   args, result>>

\* ParallelReader::ParallelReader(filepath, num_threads, skip_header)
ParallelReaderOnFile ==
    /\ fn = "none"
    /\ fn' = "ParallelReader"
    /\ \E n \in 1..MaxThreads : num_threads_' = n
    /\ column_names_' = ParallelReaderCtor.names
    /\ data_' = ParallelReaderCtor.data
    /\ size_' = ParallelReaderCtor.size
    /\ pc' = "idle"
    /\ UNCHANGED <<file, Columns, skip_header, ret, readerVars, chunks,
                   counts, threads, total, wcurrent, wcount, joined,
                   pdelivered, args, result>>

NextHeader ==
    \/ ReaderCtor
    \/ ParallelReaderOnFile

SpecHeader == InitHeader /\ [][NextHeader]_vars

\* ======================================================================
\* C26
\* ======================================================================
\* C26: for every file, the header names ParallelReader captures are,
\* slot by slot, the names Reader captures (also for a CRLF-terminated
\* header and for a header of fewer than Columns fields), and both start
\* the data at the byte after the header's LF.
C26_ParallelHeadersAsReader ==
    /\ fn = "ParallelReader" =>
          /\ column_names_ = ReaderHeader.names
          /\ data_ = ReaderHeader.next
          /\ data_ + size_ = Len(file)
          /\ (skip_header /\ LFs # {}) => data_ = Min(LFs) + 1
    /\ fn = "Reader" =>
          /\ column_names_ = ParallelReaderCtor.names
          /\ current_ = ParallelReaderCtor.data
          /\ end_ - current_ = ParallelReaderCtor.size

\* a ParallelReader constructed on a file whose header line "a" ends in
\* CRLF and has fewer than Columns fields, with data after it
C26_Witness ==
    /\ fn = "ParallelReader" /\ skip_header /\ Columns = 2
    /\ Len(file) > 3 /\ At(0) = "a" /\ At(1) = CR /\ At(2) = LF
    /\ column_names_[0] = <<"a">> /\ column_names_[1] = <<>>
    /\ data_ = 3 /\ size_ > 0

\* ======================================================================
\* MmapSource: construction, moves and destruction (Unix branch)
\* ======================================================================
\* the MmapSource objects a program holds at most, and the constructions
\* from a path it performs at most
MaxSources == 2
MaxOpens == 2

\* The program's objects and the system's resources are kept in result:
\*   src     the objects; live is false before construction and after
\*           destruction.  data_ is 0 for nullptr and k for the address
\*           of the k-th mapping made; fd_ is -1 or the descriptor of the
\*           k-th successful ::open, written Fd + k - 1 (descriptors are
\*           told apart by the open that made them)
\*   opens   the successful ::open calls so far, closes[k] the ::close
\*           calls made on the k-th descriptor
\*   maps    the successful ::mmap calls so far, unmaps[k] the ::munmap
\*           calls made on the k-th mapping
NoSource == [live |-> FALSE, data_ |-> 0, size_ |-> 0, fd_ |-> -1]

InitLife ==
    /\ file \in Bodies(MaxMapLen)
    /\ skip_header = FALSE
    /\ Columns = 1
    /\ column_names_ = NoNames
    /\ ret = 0
    /\ ReaderIdle
    /\ ParIdle
    /\ fn = "none"
    /\ args = <<>>
    /\ result = [src |-> [i \in 1..MaxSources |-> NoSource],
                 opens |-> 0, closes |-> [k \in 1..MaxOpens |-> 0],
                 maps |-> 0, unmaps |-> [k \in 1..MaxOpens |-> 0]]

\* ::close(fd) and ::munmap(data, size) as the system sees them
close(h, fd) ==
    [h EXCEPT !.closes[fd - Fd + 1] = h.closes[fd - Fd + 1] + 1]
munmap(h, addr) == [h EXCEPT !.unmaps[addr] = h.unmaps[addr] + 1]

\* MmapSource::MmapSource(path) on object i, for each way the three
\* system calls can turn out
MmapSourceCtor(h, i, opened, statted, mapped) ==
    LET fd == Fd + h.opens
        h1 == [h EXCEPT !.opens = h.opens + 1]
    IN  IF ~opened
        THEN [h EXCEPT !.src[i] = [NoSource EXCEPT !.live = TRUE]]
        ELSE IF ~statted
        THEN [close(h1, fd) EXCEPT !.src[i] = [NoSource EXCEPT !.live = TRUE]]
        ELSE IF Len(file) = 0
        THEN [h1 EXCEPT !.src[i] = [live |-> TRUE, data_ |-> 0, size_ |-> 0,
                                    fd_ |-> fd]]
        ELSE IF ~mapped
        THEN [close(h1, fd) EXCEPT
                 !.src[i] = [live |-> TRUE, data_ |-> 0, size_ |-> Len(file),
                             fd_ |-> -1]]
        ELSE [h1 EXCEPT !.maps = h.maps + 1,
                        !.src[i] = [live |-> TRUE, data_ |-> h.maps + 1,
                                    size_ |-> Len(file), fd_ |-> fd]]

\* what ~MmapSource and operator= release of object s
Release(h, s) ==
    LET h1 == IF s.data_ # 0 THEN munmap(h, s.data_) ELSE h
    IN  IF s.fd_ >= 0 THEN close(h1, s.fd_) ELSE h1

\* (mutation of MovedFrom) the source keeps its descriptor
MovedFromKeepsFd(o) == [o EXCEPT !.data_ = 0, !.size_ = 0]

\* what a move leaves in its source: o.data_ = nullptr; o.size_ = 0;
\* o.fd_ = -1
MovedFrom(o) == [o EXCEPT !.data_ = 0, !.size_ = 0, !.fd_ = -1]

LifeUnchanged ==
    UNCHANGED <<file, Columns, skip_header, column_names_, ret, readerVars,
                parVars>>

\* MmapSource s(path);
Construct(i) ==
    /\ ~result.src[i].live
    /\ result.opens < MaxOpens
    /\ fn' = "MmapSource(path)"
    /\ args' = [this |-> i, o |-> i]
    /\ \E opened, statted, mapped \in BOOLEAN :
          result' = MmapSourceCtor(result, i, opened, statted, mapped)
    /\ LifeUnchanged

\* MmapSource s(std::move(o));
MoveConstruct(i, j) ==
    /\ ~result.src[i].live
    /\ result.src[j].live
    /\ fn' = "MmapSource(MmapSource&&)"
    /\ args' = [this |-> i, o |-> j]
    /\ result' = [result EXCEPT !.src[i] = result.src[j],
                                !.src[j] = MovedFrom(result.src[j])]
    /\ LifeUnchanged

\* s = std::move(o);
MoveAssign(i, j) ==
    /\ result.src[i].live
    /\ result.src[j].live
    /\ fn' = "operator=(MmapSource&&)"
    /\ args' = [this |-> i, o |-> j]
    /\ result' = IF i # j
                 THEN [Release(result, result.src[i]) EXCEPT
                          !.src[i] = result.src[j],
                          !.src[j] = MovedFrom(result.src[j])]
                 ELSE result
    /\ LifeUnchanged

\* the end of s's lifetime
Destroy(i) ==
    /\ result.src[i].live
    /\ fn' = "~MmapSource"
    /\ args' = [this |-> i, o |-> i]
    /\ result' = [Release(result, result.src[i]) EXCEPT !.src[i] = NoSource]
    /\ LifeUnchanged

NextLife ==
    \/ \E i \in 1..MaxSources : Construct(i)
    \/ \E i, j \in 1..MaxSources : MoveConstruct(i, j)
    \/ \E i, j \in 1..MaxSources : MoveAssign(i, j)
    \/ \E i \in 1..MaxSources : Destroy(i)

SpecLife == InitLife /\ [][NextLife]_vars

\* ======================================================================
\* C27
\* ======================================================================
\* the live objects that hold the k-th descriptor, and the k-th mapping
FdOwners(k) ==
    {i \in 1..MaxSources :
        result.src[i].live /\ result.src[i].fd_ = Fd + k - 1}
MapOwners(k) ==
    {i \in 1..MaxSources : result.src[i].live /\ result.src[i].data_ = k}

\* C27: whatever sequence of constructions, move constructions, move
\* assignments and destructions has run, every descriptor opened is
\* either held by exactly one live object and not closed, or held by none
\* and closed exactly once, and the same for every mapping and munmap (so
\* when every object is destroyed each was released exactly once); the
\* source of a move is left with data null, size 0 and no descriptor.
C27_ReleasedExactlyOnce ==
    /\ \A k \in 1..MaxOpens :
          /\ result.closes[k] + Cardinality(FdOwners(k))
                = (IF k <= result.opens THEN 1 ELSE 0)
          /\ result.unmaps[k] + Cardinality(MapOwners(k))
                = (IF k <= result.maps THEN 1 ELSE 0)
    /\ (fn \in {"MmapSource(MmapSource&&)", "operator=(MmapSource&&)"}
           /\ args.this # args.o) =>
          /\ result.src[args.o].data_ = 0
          /\ result.src[args.o].size_ = 0
          /\ result.src[args.o].fd_ = -1

\* a move assignment onto an object that held a mapping: the target's old
\* descriptor and mapping are released, it now holds the second ones, and
\* the source is empty but still alive
C27_Witness ==
    /\ fn = "operator=(MmapSource&&)" /\ args.this = 1 /\ args.o = 2
    /\ result.opens = 2 /\ result.maps = 2
    /\ result.closes[1] = 1 /\ result.unmaps[1] = 1
    /\ result.closes[2] = 0 /\ result.unmaps[2] = 0
    /\ result.src[1].data_ = 2 /\ result.src[1].fd_ = Fd + 1
    /\ result.src[2].live

\* ======================================================================
\* C28
\* ======================================================================
\* the cursor just past the line that holds offset p: one byte past its
\* LF, or the end of the range
PastLine(p) == IF LineEndOf(p) < Len(file) THEN LineEndOf(p) + 1 ELSE Len(file)

\* C28: in every step of a Reader, the cursor does not move backwards;
\* a step that invokes the callback (or skips a row) leaves the cursor
\* one byte past that row's LF, or at the end of the range; a new call
\* starts where the previous one stopped, so after an early stop of
\* for_each_until the next call goes on with the next row; and once the
\* cursor is at the end no row is reported any more and a call made then
\* returns 0.
C28_CursorPastRecord ==
    [][/\ current_' >= current_
       /\ Len(log') > Len(log) =>
             /\ log'[Len(log')].cur = current_
             /\ current_' = PastLine(current_)
       /\ ncalls' # ncalls => (current_' = current_ /\ log' = <<>>)
       /\ current_ >= end_ =>
             /\ Len(log') <= Len(log)
             /\ (running /\ ~running' /\ log = <<>>) => ret' = 0]_vars

\* the second call on a Reader reported one row, and not the first row of
\* the file: the first call was a for_each_until stopped at the first row
C28_Witness ==
    /\ ~skip_header /\ ncalls = 2 /\ ~running
    /\ NoBlankLines
    /\ ret = 1 /\ Len(log) = 1 /\ log[1].ev = "callback"
    /\ log[1].cur = PastLine(0)
    /\ current_ = end_

\* ======================================================================
\* Iteration under fair scheduling
\* ======================================================================
\* most bytes explored after the header line under fair scheduling
MaxLiveLen == 3

InitLive ==
    /\ Init
    /\ Len(file) <= MaxLiveLen + (IF skip_header THEN Len(HeaderLine) ELSE 0)

\* The thread inside an iteration call keeps running: its callback
\* returns, so the loop takes its next pass, and the loop's exit returns.
\* Nothing obliges the program to make a call.
SpecLive ==
    /\ InitLive /\ [][Next]_vars
    /\ WF_vars(ForEachRawRow \/ ForEachUntilRow \/ Return)

\* the same for the calling thread and the workers of for_each_parallel
Worker(w) ==
    /\ w \in 1..Len(threads)
    /\ (ParseChunkRow(w) \/ ParseChunkReturn(w))

SpecParLive ==
    /\ InitPar /\ [][NextPar]_vars
    /\ WF_vars(Spawn \/ Join)
    /\ \A w \in 1..MaxThreads : WF_vars(Worker(w))

ParseChunkTerminates ==
    /\ [][\A w \in 1..Len(threads) :
             ParseChunkRow(w) =>
                (wcurrent[w] < wcurrent'[w] /\ wcurrent'[w] <= chunks[w][2])]_vars
    /\ ((pc = "spawn" \/ pc = "join") ~> pc = "returned")

\* ======================================================================
\* FieldRef::parse<T>() on two fields that hold the same bytes
\* ======================================================================
\* FieldRef::parse<bool>() on the bytes of the slice
parse_bool(slice) ==
    LET len == Len(slice)
        yes == [ok |-> TRUE, value |-> TRUE, error |-> "Ok"]
        no == [ok |-> TRUE, value |-> FALSE, error |-> "Ok"]
    IN  IF len = 0 THEN [ok |-> FALSE, value |-> FALSE, error |-> "InvalidBool"]
        ELSE IF len = 1 /\ slice[1] \in {"1", "t", "T", "y", "Y"} THEN yes
        ELSE IF len = 1 /\ slice[1] \in {"0", "f", "F", "n", "N"} THEN no
        ELSE IF len = 4 /\ slice \in {<<"t", "r", "u", "e">>,
                                      <<"T", "r", "u", "e">>,
                                      <<"T", "R", "U", "E">>} THEN yes
        ELSE IF len = 5 /\ slice \in {<<"f", "a", "l", "s", "e">>,
                                      <<"F", "a", "l", "s", "e">>,
                                      <<"F", "A", "L", "S", "E">>} THEN no
        ELSE IF len = 3 /\ slice \in {<<"y", "e", "s">>, <<"Y", "e", "s">>,
                                      <<"Y", "E", "S">>} THEN yes
        ELSE IF len = 2 /\ slice \in {<<"n", "o">>, <<"N", "o">>,
                                      <<"N", "O">>} THEN no
        ELSE [ok |-> FALSE, value |-> FALSE, error |-> "InvalidBool"]

\* longest field explored in two places of one mapping
MaxCtxLen == 2
\* The fields explored: every string of up to MaxCtxLen bytes of CtxChars,
\* and some of the words of parse<bool>.
CtxChars == {"1", "0", "-", ".", "e", "t", " "}
CtxWords ==
    {<<"t", "r", "u", "e">>, <<"T", "R", "U", "E">>, <<"t", "r", "u", "x">>,
     <<"f", "a", "l", "s", "e">>, <<"y", "e", "s">>, <<"N", "o">>,
     <<"1", "2", "8">>, <<"2", "5", "6">>, <<"-", "1", "2", "9">>}
CtxSlices(max) == UNION {[1..n -> CtxChars] : n \in 0..max} \cup CtxWords
\* what separates the two fields in the mapping: a delimiter, or a line
\* end
CtxSeparators == {<<Delim>>, <<LF>>, <<CR, LF>>}

\* The mapping holds the same bytes twice: as the field args.first, which
\* a separator follows, and as the field args.second, which one of
\* FloatAfter follows.
InitCtx ==
    /\ \E slice \in CtxSlices(MaxCtxLen) : \E sep \in CtxSeparators :
       \E after \in FloatAfter :
          /\ file = slice \o sep \o slice \o after
          /\ args = [first |-> [begin_ |-> 0, end_ |-> Len(slice)],
                     second |-> [begin_ |-> Len(slice) + Len(sep),
                                 end_ |-> 2 * Len(slice) + Len(sep)]]
    /\ fn = "none"
    /\ result = <<>>
    /\ NoReader

\* the bytes of a FieldRef
view(f) == Bytes(f.begin_, f.end_)

\* both fields' parse<Int>()
ParseFieldsInt ==
    /\ fn = "none"
    /\ fn' = "parse<Int>"
    /\ \E T \in IntTypes :
          result' = [first |-> parse_int(view(args.first), T),
                     second |-> parse_int(view(args.second), T)]
    /\ CallUnchanged

\* both fields' parse<double>(); what lies past the mapping is the same
\* for the two calls
ParseFieldsFloat ==
    /\ fn = "none"
    /\ fn' = "parse<Float>"
    /\ \E beyond \in Beyond :
          result' = [first |-> parse_float(args.first.begin_,
                                           args.first.end_, beyond),
                     second |-> parse_float(args.second.begin_,
                                            args.second.end_, beyond)]
    /\ CallUnchanged

\* both fields' parse<bool>()
ParseFieldsBool ==
    /\ fn = "none"
    /\ fn' = "parse<bool>"
    /\ result' = [first |-> parse_bool(view(args.first)),
                  second |-> parse_bool(view(args.second))]
    /\ CallUnchanged

NextCtx ==
    \/ ParseFieldsInt
    \/ ParseFieldsFloat
    \/ ParseFieldsBool

SpecCtx == InitCtx /\ [][NextCtx]_vars

\* ======================================================================
\* C30
\* ======================================================================
\* C30: the outcome of parse<T>() depends on the bytes of the field only:
\* two fields that hold the same bytes, whatever follows each of them in
\* the mapping, give the same outcome, for integer, floating-point and
\* boolean T, the empty field included.
C30_ParseDependsOnSliceOnly ==
    fn # "none" => result.first = result.second

====
